---- MODULE Spec2Model ----
(***************************************************************************)
(* A model of the async-pop POP3 client: the session controller            *)
(* (src/src/lib.rs, struct Client) on top of the framed stream             *)
(* (src/src/stream.rs, struct PopStream) and its command queue.            *)
(*                                                                         *)
(* One action per public operation of Client.  An operation is a           *)
(* sequence of requests; what the transport and the server do with each    *)
(* request (the write fails, the server answers +OK / -ERR / something     *)
(* malformed / something larger than the buffer cap, the read fails) is    *)
(* the environment's choice, so every operation is a set-valued operator:  *)
(* the set of the outcomes it can have from a given client.                *)
(*                                                                         *)
(* The transport is modelled at the granularity of whole lines and whole   *)
(* responses: a write either delivers the complete request line or fails   *)
(* and delivers nothing, and the server answers each request line it       *)
(* receives with exactly one response.                                     *)
(*                                                                         *)
(* The framing itself (Buffer, PopStream::decode and poll_next, and the    *)
(* response parsers of src/src/response/parser) is modelled byte by byte   *)
(* in a second machine, SpecStream, which reads a wire in chunks of any    *)
(* size and leaves the session's variables alone.  SpecParse applies the   *)
(* parsers to what has arrived of a response, SpecSasl drives the session  *)
(* through AUTH exchanges with a handler that takes challenges, and        *)
(* SpecRequest writes the request lines of the operations byte by byte.    *)
(***************************************************************************)
EXTENDS Integers, Sequences, FiniteSets, TLC

\* ------------------------------------------------------------------ bounds

\* message numbers the caller uses are 1..MaxMsg
MaxMsg == 1

\* an operation that would leave more than MaxQueue commands in the queue
\* of the stream is not taken.  A command stays in the queue only when the
\* wait for its response ends in an error (a failed read, a malformed or an
\* oversized response), so MaxQueue also bounds the number of such faults
\* in a session.
MaxQueue == 1

Msgs == 1 .. MaxMsg

\* ---------------------------------------------------------------- helpers

Range(s) == { s[i] : i \in 1 .. Len(s) }

RECURSIVE Insert(_, _)
\* x inserted into the ascending sequence s
Insert(s, x) ==
    IF s = << >> THEN << x >>
    ELSE IF x <= Head(s) THEN << x >> \o s
    ELSE << Head(s) >> \o Insert(Tail(s), x)

RECURSIVE sort(_)
\* Vec::sort of a Vec<usize>
sort(s) == IF s = << >> THEN << >> ELSE Insert(sort(Tail(s)), Head(s))

RECURSIVE bsearch(_, _, _, _)
\* binary search for x in s[lo+1 .. hi] of an ascending sequence
bsearch(s, x, lo, hi) ==
    IF lo >= hi THEN FALSE
    ELSE LET mid == lo + ((hi - lo) \div 2) IN
         IF s[mid + 1] = x THEN TRUE
         ELSE IF s[mid + 1] < x THEN bsearch(s, x, mid + 1, hi)
         ELSE bsearch(s, x, lo, mid)

\* slice::binary_search(x).is_ok()
binary_search(s, x) == bsearch(s, x, 0, Len(s))

\* --------------------------------------------------------------- commands

\* enum Command
Command ==
    { "Noop", "Uidl", "Top", "Dele", "Rset", "Retr", "List", "Stat",
      "Apop", "Auth", "User", "Pass", "Quit", "Capa", "Greet" }

\* enum ClientState
ClientState == { "Authentication", "Transaction", "Update", "None" }

\* ----------------------------------------------------------- capabilities

Cap(tag, arg) == [tag |-> tag, arg |-> arg]

CapTop == Cap("Top", << >>)
CapUidl == Cap("Uidl", << >>)
CapUser == Cap("User", << >>)

\* the names of the built-in mechanisms, as bytes
PLAIN == << "P", "L", "A", "I", "N" >>
XOAUTH2 == << "X", "O", "A", "U", "T", "H", "2" >>

CapSaslPlain == Cap("Sasl", << PLAIN >>)

\* the lists a caller asks has_capability about: one capability the server
\* may advertise, SASL with another mechanism list than a server's, a
\* capability twice, and two capabilities of which a server may offer one
Queries ==
    { << CapUidl >>,
      << CapSaslPlain >>,
      << Cap("Sasl", << >>) >>,
      << CapTop, CapTop >>,
      << CapTop, CapUser >> }

\* the capability lists a server may advertise in a CAPA response
ServerCapabilities ==
    { << CapUser >>,
      << CapTop, CapSaslPlain, CapUidl >> }

\* the ASCII letters
UpperCase ==
    << "A", "B", "C", "D", "E", "F", "G", "H", "I", "J", "K", "L", "M",
       "N", "O", "P", "Q", "R", "S", "T", "U", "V", "W", "X", "Y", "Z" >>
LowerCase ==
    << "a", "b", "c", "d", "e", "f", "g", "h", "i", "j", "k", "l", "m",
       "n", "o", "p", "q", "r", "s", "t", "u", "v", "w", "x", "y", "z" >>

\* u8::to_ascii_lowercase
lowercase_byte(b) ==
    IF \E i \in DOMAIN UpperCase : UpperCase[i] = b
    THEN LowerCase[CHOOSE i \in DOMAIN UpperCase : UpperCase[i] = b]
    ELSE b

\* <[u8]>::to_ascii_lowercase
to_ascii_lowercase(s) == [i \in 1 .. Len(s) |-> lowercase_byte(s[i])]

\* Client::has_auth_mechanism
has_auth_mechanism(c, mechanism) ==
    \E i \in 1 .. Len(c.capabilities) :
        /\ c.capabilities[i].tag = "Sasl"
        /\ \E j \in 1 .. Len(c.capabilities[i].arg) :
               to_ascii_lowercase(c.capabilities[i].arg[j])
                   = to_ascii_lowercase(mechanism)

\* Client::has_capability: the two lists as hash sets, and the size of
\* their intersection compared with the length of the query
has_capability(c, query) ==
    LET to_find == Range(query)
        server_has == Range(c.capabilities)
    IN  Cardinality(server_has \cap to_find) = Len(query)


\* ------------------------------------------------- responses and results

\* enum Response, by variant; a Capability response carries the list
Resp(type, caps) == [type |-> type, caps |-> caps]

NoResp == Resp("None", << >>)

\* the value an operation (or a step of one) returns: the client it leaves,
\* "Ok" or the ErrorKind, and the response on success
Ret(c, kind, resp) == [c |-> c, kind |-> kind, resp |-> resp]

\* ResponseParser::type: the grammar, and so the variant of the response,
\* is selected by the command alone
ResponseType(command) ==
    CASE command = "Stat" -> "Stat"
      [] command = "List" -> "List"
      [] command = "Retr" -> "Bytes"
      [] command = "Noop" -> "Noop"
      [] command = "Top" -> "Bytes"
      [] command = "Uidl" -> "Uidl"
      [] command = "Capa" -> "Capability"
      [] OTHER -> "Message"

\* ------------------------------------------------------------ environment

\* The server answers every request line it receives, in order, and sends
\* nothing else after its banner; a request is queued exactly when its line
\* was written.  So the responses not yet decoded are the answers to the
\* queued commands, and the next response to arrive answers the command at
\* the head of the queue.  What that response is, is the server's choice,
\* drawn when it is decoded: well-formed +OK ("ok"), -ERR ("err"),
\* malformed ("bad") or longer than the buffer cap ("huge").

\* the outcomes of writing a request line: all of it, or an I/O error
Writes == { "ok", "fail" }

\* what a wait for the next response meets: the read fails with an I/O
\* error (r = "fail"), or the response to `head` arrives
Arrival(head) ==
    { [r |-> "ok", reply |-> k, caps |-> cs] :
        k \in { "ok", "err" },
        cs \in IF head = "Capa" THEN ServerCapabilities ELSE { << >> } }
    \cup
    { [r |-> "fail", reply |-> "ok", caps |-> << >>],
      [r |-> "ok", reply |-> "bad", caps |-> << >>],
      [r |-> "ok", reply |-> "huge", caps |-> << >>] }

\* what may arrive for a read made during an AUTH exchange: what may
\* arrive for the head of the queue, or a continuation line
ArrivalChallenge(head) ==
    Arrival(head)
    \cup { [r |-> "ok", reply |-> "challenge", caps |-> << >>] }

\* ----------------------------------------------------------------- stream

\* the commands for which a continuation line `+ SP text CRLF` is a
\* response: AUTH and the pseudo-command that stands for a step of the
\* exchange (Command::Base64)
Handshake == { "Auth", "Base64" }

\* CommandQueue::add
add(list_, command) == Append(list_, command)

\* CommandQueue::mark_current_as_done
mark_current_as_done(list_) == Tail(list_)

\* what one read_response adds to the log of the running operation; `after`
\* is the number of lines the operation had written when it read
Got(c, command, head, status) ==
    [c EXCEPT !.got = Append(@, [cmd |-> command, own |-> (head = command),
                                 queued |-> Len(c.queue),
                                 after |-> Len(c.sent),
                                 status |-> status])]

\* PopStream::send_bytes (encode): last_activity is set to Instant::now(),
\* then the request line and CRLF are written and flushed; a failed write
\* is an Io error.  `sent` logs the lines handed to the transport,
\* delivered or not, and `delivered` is the place in it of the last line
\* that was written.  The instant of the i-th send_bytes of a call is i,
\* and 0 stands for the value last_activity had before the call
encode(c, command, args, w) ==
    Ret([c EXCEPT !.sent = Append(@, << command, args >>),
                  !.last_activity = Len(c.sent) + 1,
                  !.delivered = IF w = "fail" THEN @ ELSE Len(c.sent) + 1],
        IF w = "fail" THEN "Io" ELSE "Ok", NoResp)

\* PopStream::decode, once the bytes of the next response are in the buffer:
\* they are parsed with the grammar of the command at the head of the queue;
\* a success removes the head; a parse error leaves the head in the queue
\* and the buffer replaced by a zeroed one (the taken buffer is not returned)
decode(c, command, e) ==
    IF c.queue = << >> THEN Ret(c, "MissingRequest", NoResp)
    ELSE
    LET current_command == Head(c.queue)
    IN  CASE e.reply = "ok" ->
                Ret([Got(c, command, current_command, "+OK")
                        EXCEPT !.queue = mark_current_as_done(@)],
                    "Ok", Resp(ResponseType(current_command), e.caps))
          [] e.reply = "err" ->
                Ret([Got(c, command, current_command, "-ERR")
                        EXCEPT !.queue = mark_current_as_done(@)],
                    "Ok", Resp("Err", << >>))
          [] e.reply = "challenge" /\ current_command \in Handshake ->
                Ret([Got(c, command, current_command, "+")
                        EXCEPT !.queue = mark_current_as_done(@)],
                    "Ok", Resp("Challenge", << >>))
          [] OTHER ->
                Ret(Got([c EXCEPT !.buffer = "zeroed"],
                        command, current_command, "InvalidResponse"),
                    "InvalidResponse", NoResp)

\* Stream::poll_next: decode what is buffered, else read and decode again.
\* A zeroed buffer never parses; a buffer at the cap cannot grow; a response
\* that does not fit grows the buffer to the cap.
poll_next(c, command, e) ==
    CASE c.buffer = "zeroed" ->
            Ret(Got(c, command, Head(c.queue), "InvalidResponse"),
                "InvalidResponse", NoResp)
      [] c.buffer = "full" ->
            Ret(Got(c, command, Head(c.queue), "ResponseTooLarge"),
                "ResponseTooLarge", NoResp)
      [] e.r = "fail" ->
            Ret(Got(c, command, Head(c.queue), "Io"), "Io", NoResp)
      [] e.reply = "huge" ->
            Ret(Got([c EXCEPT !.buffer = "full"],
                    command, Head(c.queue), "ResponseTooLarge"),
                "ResponseTooLarge", NoResp)
      [] OTHER -> decode(c, command, e)

\* read_response without the match that turns Response::Err into an error
read_response_returns_err(c, command, e) ==
    poll_next([c EXCEPT !.queue = add(@, command)], command, e)

\* PopStream::read_response: the command is queued, the next response is
\* awaited, and Response::Err becomes ServerError
read_response(c, command, e) ==
    LET r == poll_next([c EXCEPT !.queue = add(@, command)], command, e)
    IN  IF r.kind = "Ok" /\ r.resp.type = "Err"
        THEN Ret(r.c, "ServerError", NoResp)
        ELSE r

\* the outcomes of read_response(command) on c, over what may arrive
await_response(c, command) ==
    { read_response(c, command, e)
      : e \in Arrival(Head(add(c.queue, command))) }

\* ----------------------------------------------------------------- client

\* no message number given (Option::None)
NoMsg == 0

\* Client::inner_mut
inner_mut(c) ==
    IF c.inner
    THEN IF c.state = "Transaction" \/ c.state = "Authentication"
         THEN "Ok"
         ELSE "ShouldNotBeConnected"
    ELSE "NotConnected"

\* check_client_state that accepts every state
check_client_state_is_ok(c, required) == "Ok"

\* Client::check_client_state
check_client_state(c, required) ==
    IF c.state # required THEN "IncorrectStateForCommand" ELSE "Ok"

\* has_read_greeting that does not look at the flag
has_read_greeting_is_ok(c) == "Ok"

\* Client::has_read_greeting
has_read_greeting(c) ==
    IF ~c.read_greeting THEN "ServerFailedToGreet" ELSE "Ok"

\* Client::check_capability
\* check_capability that accepts every query
check_capability_is_ok(c, capability) == "Ok"

\* Client::check_capability
check_capability(c, capability) ==
    IF ~has_capability(c, capability) THEN "FeatureUnsupported" ELSE "Ok"

\* is_deleted with the result of the search inverted (is_err for is_ok)
is_deleted_is_err(c, msg_number) ==
    LET sorted == sort(c.marked_as_del)
    IN  [c |-> [c EXCEPT !.marked_as_del = sorted],
         found |-> ~binary_search(sorted, msg_number)]

\* Client::is_deleted: the list is sorted in place, then searched
is_deleted(c, msg_number) ==
    LET sorted == sort(c.marked_as_del)
    IN  [c |-> [c EXCEPT !.marked_as_del = sorted],
         found |-> binary_search(sorted, msg_number)]

\* Client::check_deleted
check_deleted(c, msg_number) ==
    LET d == is_deleted(c, msg_number)
    IN  Ret(d.c, IF d.found THEN "MessageIsDeleted" ELSE "Ok", NoResp)

\* the `match response { Response::X(resp) => Ok(resp), _ => err!(...) }`
\* that ends an operation
expect(r, types) ==
    IF r.kind = "Ok" /\ r.resp.type \notin types
    THEN Ret(r.c, "UnexpectedResponse", NoResp)
    ELSE r

\* Client::send_request
send_request(c, command, args) ==
    IF inner_mut(c) # "Ok" THEN { Ret(c, inner_mut(c), NoResp) }
    ELSE UNION
         { LET sent == encode(c, command, args, w)
           IN  IF sent.kind # "Ok" THEN { sent }
               ELSE await_response(sent.c, command)
           : w \in Writes }

\* capa that stores the list it returns
capa_stores(c) ==
    { LET e == expect(r, { "Capability" })
      IN  IF e.kind = "Ok"
          THEN Ret([e.c EXCEPT !.capabilities = e.resp.caps], "Ok", e.resp)
          ELSE e
      : r \in send_request(c, "Capa", << >>) }

\* Client::capa
capa(c) ==
    { expect(r, { "Capability" }) : r \in send_request(c, "Capa", << >>) }

\* update_capabilities that forgets the list when capa fails
update_capabilities_clears(c) ==
    { IF r.kind = "Ok" THEN [r.c EXCEPT !.capabilities = r.resp.caps]
      ELSE [r.c EXCEPT !.capabilities = << >>]
      : r \in capa(c) }

\* Client::update_capabilities: the clients it can leave
update_capabilities(c) ==
    { IF r.kind = "Ok" THEN [r.c EXCEPT !.capabilities = r.resp.caps]
      ELSE r.c
      : r \in capa(c) }

\* Client::noop
noop(c) ==
    { IF r.kind = "Ok" THEN Ret(r.c, "Ok", NoResp) ELSE r
      : r \in send_request(c, "Noop", << >>) }

\* Client::uidl
uidl(c, msg_number) ==
    IF check_capability(c, << CapUidl >>) # "Ok"
    THEN { Ret(c, "FeatureUnsupported", NoResp) }
    ELSE LET d == IF msg_number # NoMsg THEN check_deleted(c, msg_number)
                  ELSE Ret(c, "Ok", NoResp)
             args == IF msg_number # NoMsg THEN << msg_number >> ELSE << >>
         IN  IF d.kind # "Ok" THEN { d }
             ELSE { expect(r, { "Uidl" })
                    : r \in send_request(d.c, "Uidl", args) }

\* Client::top
top(c, msg_number, lines) ==
    LET d == check_deleted(c, msg_number)
    IN  IF d.kind # "Ok" THEN { d }
        ELSE IF check_capability(d.c, << CapTop >>) # "Ok"
        THEN { Ret(d.c, "FeatureUnsupported", NoResp) }
        ELSE { expect(r, { "Bytes" })
               : r \in send_request(d.c, "Top", << msg_number, lines >>) }

\* Client::dele
dele(c, msg_number) ==
    LET d == check_deleted(c, msg_number)
    IN  IF d.kind # "Ok" THEN { d }
        ELSE { expect(r, { "Message" })
               : r \in send_request(d.c, "Dele", << msg_number >>) }

\* Client::rset
rset(c) ==
    { IF r.kind # "Ok" THEN r
      ELSE expect(Ret([r.c EXCEPT !.marked_as_del = << >>], "Ok", r.resp),
                  { "Message" })
      : r \in send_request(c, "Rset", << >>) }

\* Client::retr
retr(c, msg_number) ==
    LET d == check_deleted(c, msg_number)
    IN  IF d.kind # "Ok" THEN { d }
        ELSE { expect(r, { "Bytes" })
               : r \in send_request(d.c, "Retr", << msg_number >>) }

\* Client::list
list(c, msg_number) ==
    LET d == IF msg_number # NoMsg THEN check_deleted(c, msg_number)
             ELSE Ret(c, "Ok", NoResp)
        args == IF msg_number # NoMsg THEN << msg_number >> ELSE << >>
    IN  IF d.kind # "Ok" THEN { d }
        ELSE { expect(r, { "List", "Stat" })
               : r \in send_request(d.c, "List", args) }

\* Client::stat
stat(c) ==
    { expect(r, { "Stat" }) : r \in send_request(c, "Stat", << >>) }


\* apop without `self.state = ClientState::Transaction`
apop_keeps_state(c) ==
    IF check_client_state(c, "Authentication") # "Ok"
    THEN { Ret(c, check_client_state(c, "Authentication"), NoResp) }
    ELSE IF has_read_greeting(c) # "Ok"
    THEN { Ret(c, has_read_greeting(c), NoResp) }
    ELSE UNION
         { IF r.kind # "Ok" THEN { r }
           ELSE { expect(Ret(u, "Ok", r.resp), { "Message" })
                  : u \in update_capabilities(r.c) }
           : r \in send_request(c, "Apop", << "name", "digest" >>) }

\* Client::apop
apop(c) ==
    IF check_client_state(c, "Authentication") # "Ok"
    THEN { Ret(c, check_client_state(c, "Authentication"), NoResp) }
    ELSE IF has_read_greeting(c) # "Ok"
    THEN { Ret(c, has_read_greeting(c), NoResp) }
    ELSE UNION
         { IF r.kind # "Ok" THEN { r }
           ELSE { expect(Ret([u EXCEPT !.state = "Transaction"], "Ok", r.resp),
                         { "Message" })
                  : u \in update_capabilities(r.c) }
           : r \in send_request(c, "Apop", << "name", "digest" >>) }

\* an authenticator without an initial response (Authenticator::auth
\* returning None)
initial_response_none(mechanism) == "none"

\* Authenticator::auth of the built-in mechanisms (PlainAuthenticator,
\* OAuth2Authenticator): the initial response, sent base64-encoded
initial_response(mechanism) ==
    IF mechanism = PLAIN THEN "base64(NUL user NUL password)"
    ELSE "base64(user=user SOH auth=Bearer token SOH SOH)"

\* auth that refuses a mechanism the capability list does not offer
auth_checks_mechanism(c, mechanism) ==
    IF check_client_state(c, "Authentication") # "Ok"
    THEN { Ret(c, check_client_state(c, "Authentication"), NoResp) }
    ELSE IF has_read_greeting(c) # "Ok"
    THEN { Ret(c, has_read_greeting(c), NoResp) }
    ELSE IF ~has_auth_mechanism(c, mechanism)
    THEN { Ret(c, "FeatureUnsupported", NoResp) }
    ELSE IF inner_mut(c) # "Ok"
    THEN { Ret(c, inner_mut(c), NoResp) }
    ELSE UNION
         { LET sent == encode(c, "Auth",
                              << mechanism, initial_response(mechanism) >>, w)
           IN  IF sent.kind # "Ok" THEN { sent }
               ELSE UNION
                    { IF r.kind # "Ok" THEN { r }
                      ELSE IF r.resp.type # "Message"
                      THEN { Ret(r.c, "UnexpectedResponse", NoResp) }
                      ELSE { Ret([u EXCEPT !.state = "Transaction"],
                                 "Ok", r.resp)
                             : u \in update_capabilities(r.c) }
                      : r \in await_response(sent.c, "Auth") }
           : w \in Writes }

\* Client::auth with a built-in mechanism, whose handler (the default
\* Authenticator::handle) exchanges nothing and returns Ok
auth(c, mechanism) ==
    IF check_client_state(c, "Authentication") # "Ok"
    THEN { Ret(c, check_client_state(c, "Authentication"), NoResp) }
    ELSE IF has_read_greeting(c) # "Ok"
    THEN { Ret(c, has_read_greeting(c), NoResp) }
    ELSE IF inner_mut(c) # "Ok"
    THEN { Ret(c, inner_mut(c), NoResp) }
    ELSE UNION
         { LET sent == encode(c, "Auth",
                              << mechanism, initial_response(mechanism) >>, w)
           IN  IF sent.kind # "Ok" THEN { sent }
               ELSE UNION
                    { IF r.kind # "Ok" THEN { r }
                      ELSE IF r.resp.type # "Message"
                      THEN { Ret(r.c, "UnexpectedResponse", NoResp) }
                      ELSE { Ret([u EXCEPT !.state = "Transaction"],
                                 "Ok", r.resp)
                             : u \in update_capabilities(r.c) }
                      : r \in await_response(sent.c, "Auth") }
           : w \in Writes }

\* the most rounds of challenge and reply a mechanism handler goes through
MaxRounds == 2

\* Communicator::next_challenge: a Base64 command is queued (that of the
\* request popped from `requests`, or one of no payload; the payload plays
\* no part in the parsing), the next response is read, and anything but a
\* challenge is UnexpectedResponse
next_challenge(c) ==
    { LET r == read_response(c, "Base64", e)
      IN  IF r.kind = "Ok" /\ r.resp.type # "Challenge"
          THEN Ret(r.c, "UnexpectedResponse", NoResp)
          ELSE r
      : e \in ArrivalChallenge(Head(add(c.queue, "Base64"))) }

\* Communicator::send: the reply is written as a Base64 request
Communicator_send(c, w) == encode(c, "Base64", << "reply" >>, w)

\* Authenticator::handle of a mechanism of `rounds` rounds: the next
\* challenge is awaited and answered, `rounds` times over; the first error
\* ends the handler
RECURSIVE handle(_, _)
handle(c, rounds) ==
    IF rounds = 0 THEN { Ret(c, "Ok", NoResp) }
    ELSE UNION
         { IF challenge.kind # "Ok" THEN { challenge }
           ELSE UNION
                { LET sent == Communicator_send(challenge.c, w)
                  IN  IF sent.kind # "Ok" THEN { sent }
                      ELSE handle(sent.c, rounds - 1)
                  : w \in Writes }
           : challenge \in next_challenge(c) }

\* auth that goes on to the final status when the handler has failed
auth_handled_drops_error(c, mechanism, rounds) ==
    IF check_client_state(c, "Authentication") # "Ok"
    THEN { Ret(c, check_client_state(c, "Authentication"), NoResp) }
    ELSE IF has_read_greeting(c) # "Ok"
    THEN { Ret(c, has_read_greeting(c), NoResp) }
    ELSE IF inner_mut(c) # "Ok"
    THEN { Ret(c, inner_mut(c), NoResp) }
    ELSE UNION
         { LET sent == encode(c, "Auth", << mechanism >>, w)
           IN  IF sent.kind # "Ok" THEN { sent }
               ELSE UNION
                    { UNION
                      { IF r.kind # "Ok" THEN { r }
                        ELSE IF r.resp.type # "Message"
                        THEN { Ret(r.c, "UnexpectedResponse", NoResp) }
                        ELSE { Ret([u EXCEPT !.state = "Transaction"],
                                   "Ok", r.resp)
                               : u \in update_capabilities(r.c) }
                        : r \in { read_response(h.c, "Auth", e)
                                  : e \in ArrivalChallenge(
                                         Head(add(h.c.queue, "Auth"))) } }
                      : h \in handle(sent.c, rounds) }
           : w \in Writes }

\* Client::auth with a mechanism that has no initial response and whose
\* handler goes through `rounds` rounds: the AUTH request is written, the
\* handler runs on the stream, and after it has returned Ok the final
\* status is read
auth_handled(c, mechanism, rounds) ==
    IF check_client_state(c, "Authentication") # "Ok"
    THEN { Ret(c, check_client_state(c, "Authentication"), NoResp) }
    ELSE IF has_read_greeting(c) # "Ok"
    THEN { Ret(c, has_read_greeting(c), NoResp) }
    ELSE IF inner_mut(c) # "Ok"
    THEN { Ret(c, inner_mut(c), NoResp) }
    ELSE UNION
         { LET sent == encode(c, "Auth", << mechanism >>, w)
           IN  IF sent.kind # "Ok" THEN { sent }
               ELSE UNION
                    { IF h.kind # "Ok" THEN { h }
                      ELSE UNION
                      { IF r.kind # "Ok" THEN { r }
                        ELSE IF r.resp.type # "Message"
                        THEN { Ret(r.c, "UnexpectedResponse", NoResp) }
                        ELSE { Ret([u EXCEPT !.state = "Transaction"],
                                   "Ok", r.resp)
                               : u \in update_capabilities(r.c) }
                        : r \in { read_response(h.c, "Auth", e)
                                  : e \in ArrivalChallenge(
                                         Head(add(h.c.queue, "Auth"))) } }
                      : h \in handle(sent.c, rounds) }
           : w \in Writes }

\* Client::login, from has_read_greeting on: USER, PASS, the capability
\* refresh, the state change, and only then the check of the two responses
login_user_pass(c) ==
    IF has_read_greeting(c) # "Ok"
    THEN { Ret(c, has_read_greeting(c), NoResp) }
    ELSE UNION
         { IF user_response.kind # "Ok" THEN { user_response }
           ELSE UNION
                { IF pass_response.kind # "Ok" THEN { pass_response }
                  ELSE { LET done == [u EXCEPT !.state = "Transaction"]
                         IN  IF user_response.resp.type # "Message"
                             THEN Ret(done, "UnexpectedResponse", NoResp)
                             ELSE expect(Ret(done, "Ok", pass_response.resp),
                                         { "Message" })
                         : u \in update_capabilities(pass_response.c) }
                  : pass_response \in
                        send_request(user_response.c, "Pass", << "password" >>) }
           : user_response \in send_request(c, "User", << "user" >>) }

\* login that returns the error of the AUTH PLAIN attempt instead of going
\* on with USER and PASS
login_without_fallback(c) ==
    IF check_client_state(c, "Authentication") # "Ok"
    THEN { Ret(c, check_client_state(c, "Authentication"), NoResp) }
    ELSE IF has_auth_mechanism(c, PLAIN)
    THEN auth(c, PLAIN)
    ELSE login_user_pass(c)

\* Client::login: AUTH PLAIN first when the server advertises it, and
\* USER/PASS when it does not or when the AUTH attempt fails
login(c) ==
    IF check_client_state(c, "Authentication") # "Ok"
    THEN { Ret(c, check_client_state(c, "Authentication"), NoResp) }
    ELSE IF has_auth_mechanism(c, PLAIN)
    THEN UNION { IF a.kind = "Ok" THEN { a } ELSE login_user_pass(a.c)
                 : a \in auth(c, PLAIN) }
    ELSE login_user_pass(c)

\* closed without `self.read_greeting = false`
closed_still_greeted(c) ==
    [c EXCEPT !.state = "None", !.inner = FALSE, !.queue = << >>,
              !.buffer = "clean", !.marked_as_del = << >>,
              !.capabilities = << >>]

\* closed without `self.capabilities.clear()`
closed_keeps_capabilities(c) ==
    [c EXCEPT !.state = "None", !.inner = FALSE, !.queue = << >>,
              !.buffer = "clean", !.read_greeting = FALSE,
              !.marked_as_del = << >>]

\* closed without `self.inner = None`
closed_keeps_inner(c) ==
    [c EXCEPT !.state = "None", !.read_greeting = FALSE,
              !.marked_as_del = << >>, !.capabilities = << >>]

\* what Client::quit assigns once QUIT was answered: the state goes through
\* Update to None, the stream is dropped, the rest is cleared
closed(c) ==
    [c EXCEPT !.state = "None",
              !.inner = FALSE,
              !.queue = << >>, !.buffer = "clean",
              !.read_greeting = FALSE,
              !.marked_as_del = << >>,
              !.capabilities = << >>]

\* Client::quit
quit(c) ==
    { IF r.kind # "Ok" THEN r
      ELSE expect(Ret(closed(r.c), "Ok", r.resp), { "Message" })
      : r \in send_request(c, "Quit", << >>) }

\* read_greeting without `self.read_greeting = true`
read_greeting_unflagged(c) ==
    IF inner_mut(c) # "Ok" THEN { Ret(c, inner_mut(c), NoResp) }
    ELSE { IF r.kind # "Ok" THEN r
           ELSE IF r.resp.type = "Message"
           THEN Ret([r.c EXCEPT !.greeting = "banner"], "Ok", r.resp)
           ELSE Ret(r.c, "UnexpectedResponse", NoResp)
           : r \in await_response(c, "Greet") }

\* Client::read_greeting: no request is written; the banner is awaited
read_greeting(c) ==
    IF inner_mut(c) # "Ok" THEN { Ret(c, inner_mut(c), NoResp) }
    ELSE { IF r.kind # "Ok" THEN r
           ELSE IF r.resp.type = "Message"
           THEN Ret([r.c EXCEPT !.greeting = "banner",
                                !.read_greeting = TRUE], "Ok", r.resp)
           ELSE Ret(r.c, "UnexpectedResponse", NoResp)
           : r \in await_response(c, "Greet") }

\* PopStream::new, and the Client that create_client_from_socket starts from
fresh ==
    [state |-> "Authentication",
     inner |-> TRUE,
     queue |-> << >>,
     buffer |-> "clean",
     capabilities |-> << >>,
     marked_as_del |-> << >>,
     greeting |-> "none",
     read_greeting |-> FALSE,
     sent |-> << >>,
     got |-> << >>,
     last_activity |-> 0,
     delivered |-> 0]

\* create_client_from_socket (new, connect, connect_plain): the outcomes
create_client_from_socket ==
    UNION { IF g.kind # "Ok" THEN { g }
            ELSE { Ret(u, "Ok", g.resp) : u \in update_capabilities(g.c) }
            : g \in read_greeting(fresh) }


\* ------------------------------------------- bytes and the nom parsers

\* Buffer::CHUNK_SIZE, in bytes. The code's 2048 is scaled down so that a
\* status line can fill a chunk; every definition below is written in terms
\* of the name.
CHUNK_SIZE == 6

\* the chunks a buffer may hold: MAX_SIZE / CHUNK_SIZE, scaled from 10240
MaxChunks == 3

\* Buffer::MAX_SIZE
MAX_SIZE == CHUNK_SIZE * MaxChunks

\* constants.rs; a byte is a string of one character
CR == "\r"
LF == "\n"
OK == << "+", "O", "K" >>
ERR == << "-", "E", "R", "R" >>
END_OF_LINE == << CR, LF >>

\* a zero byte, as BytesMut::zeroed gives
NUL == "NUL"

zeroed(len) == [i \in 1 .. len |-> NUL]

\* input[n..], input[..n] and the test behind nom's Compare
Drop(input, n) == SubSeq(input, n + 1, Len(input))
Take(input, n) == SubSeq(input, 1, n)
StartsWith(input, t) == Len(input) >= Len(t) /\ Take(input, Len(t)) = t

\* nom::IResult: Ok((rest, value)), Err(Incomplete(Needed::Size(n))) with
\* n = 0 standing for Needed::Unknown, and Err(Error(_))
Done(rest, val) == [t |-> "Ok", rest |-> rest, val |-> val]
Incomplete(needed) == [t |-> "Incomplete", needed |-> needed]
Error == [t |-> "Error"]

\* Option
None == [some |-> FALSE]
Some(val) == [some |-> TRUE, val |-> val]

\* nom::bytes::streaming::tag
tag_streaming(t, input) ==
    IF StartsWith(input, t) THEN Done(Drop(input, Len(t)), t)
    ELSE IF Len(input) < Len(t) /\ input = Take(t, Len(input))
    THEN Incomplete(Len(t) - Len(input))
    ELSE Error

\* nom::bytes::complete::tag
tag_complete(t, input) ==
    IF StartsWith(input, t) THEN Done(Drop(input, Len(t)), t) ELSE Error

\* the number of spaces the input begins with
Spaces(input) ==
    CHOOSE n \in 0 .. Len(input) :
        /\ \A i \in 1 .. n : input[i] = " "
        /\ n < Len(input) => input[n + 1] # " "

\* nom::character::streaming::space0: the end of the input may be followed
\* by more spaces
space0_streaming(input) ==
    IF Spaces(input) = Len(input) THEN Incomplete(1)
    ELSE Done(Drop(input, Spaces(input)), Take(input, Spaces(input)))

\* nom::character::complete::space0
space0_complete(input) ==
    Done(Drop(input, Spaces(input)), Take(input, Spaces(input)))

\* nom::character::complete::line_ending
line_ending(input) ==
    IF StartsWith(input, << LF >>) THEN Done(Drop(input, 1), << LF >>)
    ELSE IF StartsWith(input, END_OF_LINE)
    THEN Done(Drop(input, 2), END_OF_LINE)
    ELSE Error

\* the bytes before the first CR or LF of the input
LineLength(input) ==
    CHOOSE n \in 0 .. Len(input) :
        /\ \A i \in 1 .. n : input[i] \notin { CR, LF }
        /\ n < Len(input) => input[n + 1] \in { CR, LF }

\* nom::character::complete::not_line_ending: all the input when it has no
\* line ending, and an error at a CR that no LF follows
not_line_ending(input) ==
    LET index == LineLength(input)
    IN  IF index = Len(input) THEN Done(<< >>, input)
        ELSE IF input[index + 1] = CR
                /\ ~StartsWith(Drop(input, index), END_OF_LINE)
        THEN Error
        ELSE Done(Drop(input, index), Take(input, index))

\* the `?` after a parser: its error or Incomplete is returned, and its
\* result is passed on otherwise
and_then(r, parser(_)) == IF r.t # "Ok" THEN r ELSE parser(r)

\* nom::combinator::opt
opt(r, input) ==
    IF r.t = "Error" THEN Done(input, None)
    ELSE IF r.t = "Ok" THEN Done(r.rest, Some(r.val))
    ELSE r

\* core.rs eol: pair(space0, line_ending)
eol(input) ==
    and_then(space0_complete(input), LAMBDA s :
    and_then(line_ending(s.rest), LAMBDA l :
        Done(l.rest, << >>)))

\* core.rs end_of_multiline: pair(tag("."), line_ending)
end_of_multiline(input) ==
    and_then(tag_complete(<< "." >>, input), LAMBDA d :
    and_then(line_ending(d.rest), LAMBDA l :
        Done(l.rest, << >>)))

\* core.rs message_parser: terminated(opt(not_line_ending), eol)
message_parser(input) ==
    and_then(opt(not_line_ending(input), input), LAMBDA m :
    and_then(eol(m.rest), LAMBDA e :
        Done(e.rest, m.val)))

\* the first index at which t occurs in the input, 0 when it does not
find_substring(input, t) ==
    IF \E i \in 1 .. Len(input) : StartsWith(Drop(input, i - 1), t)
    THEN CHOOSE i \in 1 .. Len(input) :
             /\ StartsWith(Drop(input, i - 1), t)
             /\ \A j \in 1 .. i - 1 : ~StartsWith(Drop(input, j - 1), t)
    ELSE 0

\* nom::bytes::streaming::take_until
take_until(t, input) ==
    LET i == find_substring(input, t)
    IN  IF i = 0 THEN Incomplete(0)
        ELSE Done(Drop(input, i - 1), Take(input, i - 1))

\* nom::branch::alt of two parsers: the second is tried when the first
\* gives an error
alt(first, second) == IF first.t # "Error" THEN first ELSE second

\* rfc1939.rs status: alt((tag(OK), tag(ERR))) and then space0; the value
\* is Status::success
status(input) ==
    and_then(alt(tag_streaming(OK, input), tag_streaming(ERR, input)),
             LAMBDA s :
    and_then(space0_streaming(s.rest), LAMBDA sp :
        Done(sp.rest, s.val = OK)))

\* enum Response, with the bytes a variant carries
Response(type, data) == [type |-> type, data |-> data]

\* Option::unwrap_or(b"")
unwrap_or_empty(o) == IF o.some THEN o.val ELSE << >>

\* rfc1939.rs rfc822_response
rfc822_response(input) ==
    and_then(message_parser(input), LAMBDA m :
    and_then(take_until(END_OF_LINE \o << "." >> \o END_OF_LINE, m.rest),
             LAMBDA content :
    and_then(eol(content.rest), LAMBDA e :
    and_then(end_of_multiline(e.rest), LAMBDA d :
        Done(d.rest, Response("Bytes", content.val))))))

\* error_response that returns the text as a message
error_response_as_message(input) ==
    and_then(message_parser(input), LAMBDA m :
        Done(m.rest, Response("Message", unwrap_or_empty(m.val))))

\* rfc1939.rs error_response
error_response(input) ==
    and_then(message_parser(input), LAMBDA m :
        Done(m.rest, Response("Err", unwrap_or_empty(m.val))))

\* rfc1939.rs string_response
string_response(input) ==
    and_then(message_parser(input), LAMBDA m :
        Done(m.rest, Response("Message", unwrap_or_empty(m.val))))

\* ------------------------------------------- the capability parsers

\* nom::bytes::streaming::tag_no_case: an error at the first byte that
\* differs, Incomplete when the input is a prefix of the tag
tag_no_case(t, input) ==
    IF \E i \in 1 .. Len(t) :
           i <= Len(input) /\ lowercase_byte(input[i]) # lowercase_byte(t[i])
    THEN Error
    ELSE IF Len(input) < Len(t) THEN Incomplete(Len(t) - Len(input))
    ELSE Done(Drop(input, Len(t)), Take(input, Len(t)))

\* the number of bytes of `set` the input begins with
Leading(input, set) ==
    CHOOSE n \in 0 .. Len(input) :
        /\ \A i \in 1 .. n : input[i] \in set
        /\ n < Len(input) => input[n + 1] \notin set

\* nom's split_at_position1 in streaming mode: one byte of the set or more,
\* and Incomplete when the input ends before a byte outside the set
take_while1_streaming(set, input) ==
    IF Leading(input, set) = Len(input) THEN Incomplete(1)
    ELSE IF Leading(input, set) = 0 THEN Error
    ELSE Done(Drop(input, Leading(input, set)),
              Take(input, Leading(input, set)))

\* nom::character::streaming::space1
space1(input) == take_while1_streaming({ " " }, input)

Digits == { "0", "1", "2", "3", "4", "5", "6", "7", "8", "9" }

\* nom::character::streaming::digit1
digit1(input) == take_while1_streaming(Digits, input)

\* the tags of rfc2449.rs

TOP == << "T", "O", "P" >>
USER == << "U", "S", "E", "R" >>
RESP_CODES == << "R", "E", "S", "P", "-", "C", "O", "D", "E", "S" >>
SASL == << "S", "A", "S", "L" >>
LOGIN_DELAY == << "L", "O", "G", "I", "N", "-", "D", "E", "L", "A", "Y" >>
PIPELINING == << "P", "I", "P", "E", "L", "I", "N", "I", "N", "G" >>
EXPIRE == << "E", "X", "P", "I", "R", "E" >>
UIDL == << "U", "I", "D", "L" >>
IMPLEMENTATION ==
    << "I", "M", "P", "L", "E", "M", "E", "N", "T", "A", "T", "I", "O",
       "N" >>
STLS == << "S", "T", "L", "S" >>
NEVER == << "N", "E", "V", "E", "R" >>

\* the mechanism names sasl_mechanism knows, in the order it tries them
SaslMechanisms ==
    << << "K", "E", "R", "B", "E", "R", "O", "S", "_", "V", "4" >>,
       << "G", "S", "S", "A", "P", "I" >>,
       << "S", "K", "E", "Y" >>,
       << "C", "R", "A", "M", "-", "M", "D", "5" >>,
       << "D", "I", "G", "E", "S", "T", "-", "M", "D", "5" >>,
       << "P", "L", "A", "I", "N" >>,
       << "L", "O", "G", "I", "N" >>,
       << "X", "O", "A", "U", "T", "H", "2" >>,
       << "O", "A", "U", "T", "H", "B", "E", "A", "R", "E", "R" >>,
       << "N", "T", "L", "M" >>,
       << "A", "N", "O", "N", "Y", "M", "O", "U", "S" >>,
       << "E", "X", "T", "E", "R", "N", "A", "L" >>,
       << "S", "C", "R", "A", "M", "-", "S", "H", "A", "-", "1" >>,
       << "S", "C", "R", "A", "M", "-", "S", "H", "A", "-", "2", "5", "6" >> >>

\* alt over tag_no_case of each of `tags`: the first that is not an error
RECURSIVE alt_tag_no_case(_, _)
alt_tag_no_case(tags, input) ==
    IF tags = << >> THEN Error
    ELSE alt(tag_no_case(Head(tags), input),
             alt_tag_no_case(Tail(tags), input))

\* rfc2449.rs sasl_mechanism
sasl_mechanism(input) == alt_tag_no_case(SaslMechanisms, input)

\* nom::multi::separated_list0(space1, sasl_mechanism): `sep` is the result
\* of the separator after the elements `res`, `m` that of the element after
\* a separator; an error of either ends the list before the separator
RECURSIVE separated_list0_sep(_, _, _)
RECURSIVE separated_list0_elem(_, _, _)
separated_list0_sep(input, res, sep) ==
    IF sep.t = "Error" THEN Done(input, res)
    ELSE IF sep.t # "Ok" THEN sep
    ELSE separated_list0_elem(input, res, sasl_mechanism(sep.rest))

separated_list0_elem(input, res, m) ==
    IF m.t = "Error" THEN Done(input, res)
    ELSE IF m.t # "Ok" THEN m
    ELSE separated_list0_sep(m.rest, Append(res, m.val), space1(m.rest))

\* separated_list0(space1, sasl_mechanism), from its first element
separated_list0(input) ==
    separated_list0_elem(input, << >>, sasl_mechanism(input))

\* rfc2449.rs sasl
sasl(input) ==
    and_then(tag_no_case(SASL, input), LAMBDA t :
    and_then(space0_streaming(t.rest), LAMBDA s :
    and_then(separated_list0(s.rest), LAMBDA mechanisms :
    and_then(eol(mechanisms.rest), LAMBDA e :
        Done(e.rest, Cap("Sasl", mechanisms.val))))))

\* rfc2449.rs login_delay
login_delay(input) ==
    and_then(tag_no_case(LOGIN_DELAY, input), LAMBDA t :
    and_then(space1(t.rest), LAMBDA s :
    and_then(digit1(s.rest), LAMBDA time :
    and_then(eol(time.rest), LAMBDA e :
        Done(e.rest, Cap("LoginDelay", << time.val >>))))))

\* preceded(space1, alt((digit1, tag_no_case("NEVER")))) of expire:
\* Expiration::Time with the digits, Expiration::Never with none
expiration(input) ==
    and_then(space1(input), LAMBDA s :
        alt(and_then(digit1(s.rest), LAMBDA time :
                Done(time.rest, << time.val >>)),
            and_then(tag_no_case(NEVER, s.rest), LAMBDA n :
                Done(n.rest, << >>))))

\* rfc2449.rs expire; Expiration::default is Never
expire(input) ==
    and_then(tag_no_case(EXPIRE, input), LAMBDA t :
    and_then(opt(expiration(t.rest), t.rest), LAMBDA x :
    and_then(eol(x.rest), LAMBDA e :
        Done(e.rest, Cap("Expire", IF x.val.some THEN x.val.val
                                   ELSE << >>)))))

\* rfc2449.rs implementation
implementation(input) ==
    and_then(tag_no_case(IMPLEMENTATION, input), LAMBDA t :
    and_then(message_parser(t.rest), LAMBDA m :
        Done(m.rest, Cap("Implementation", << unwrap_or_empty(m.val) >>))))

\* the bytes one_of accepts in unknown_capability
NameBytes == Range(UpperCase) \cup Digits \cup { "-" }

\* rfc2449.rs unknown_capability: many1(one_of(..)) and then eol
unknown_capability(input) ==
    and_then(take_while1_streaming(NameBytes, input), LAMBDA name :
    and_then(eol(name.rest), LAMBDA e :
        Done(e.rest, Cap("Other", << name.val >>))))

\* terminated(value(val, tag_no_case(t)), eol), as capability builds it for
\* the capabilities without parameters
terminated_value(val, t, input) ==
    and_then(tag_no_case(t, input), LAMBDA x :
    and_then(eol(x.rest), LAMBDA e :
        Done(e.rest, val)))

\* rfc2449.rs capability: the alt of the eleven parsers, in its order
capability(input) ==
    alt(terminated_value(CapTop, TOP, input),
    alt(terminated_value(CapUser, USER, input),
    alt(terminated_value(Cap("RespCodes", << >>), RESP_CODES, input),
    alt(sasl(input),
    alt(login_delay(input),
    alt(terminated_value(Cap("Pipelining", << >>), PIPELINING, input),
    alt(expire(input),
    alt(terminated_value(CapUidl, UIDL, input),
    alt(implementation(input),
    alt(terminated_value(Cap("Stls", << >>), STLS, input),
        unknown_capability(input)))))))))))

\* nom::multi::many_till(capability, end_of_multiline): `g` is the result
\* of end_of_multiline on the input, `f` that of capability
RECURSIVE many_till_end(_, _, _)
RECURSIVE many_till_capability(_, _)
many_till_end(input, res, g) ==
    IF g.t = "Ok" THEN Done(g.rest, res)
    ELSE IF g.t # "Error" THEN g
    ELSE many_till_capability(res, capability(input))

many_till_capability(res, f) ==
    IF f.t # "Ok" THEN f
    ELSE many_till_end(f.rest, Append(res, f.val), end_of_multiline(f.rest))

\* rfc2449.rs capability_response
capability_response(input) ==
    and_then(message_parser(input), LAMBDA m :
    and_then(many_till_end(m.rest, << >>, end_of_multiline(m.rest)),
             LAMBDA capabilities_ :
        Done(capabilities_.rest,
             Response("Capability", capabilities_.val))))

\* ------------------------------------------- the list and uidl parsers

\* nom::character::streaming::not_line_ending: Incomplete while no line
\* ending has arrived or a CR is the last byte, an error at a CR that no
\* LF follows
not_line_ending_streaming(input) ==
    LET index == LineLength(input)
    IN  IF index = Len(input) THEN Incomplete(0)
        ELSE IF input[index + 1] = CR
        THEN IF StartsWith(Drop(input, index), END_OF_LINE)
             THEN Done(Drop(input, index), Take(input, index))
             ELSE IF Len(input) = index + 1 THEN Incomplete(0)
             ELSE Error
        ELSE Done(Drop(input, index), Take(input, index))

\* nom::character::is_alphanumeric
Alphanumeric == Range(UpperCase) \cup Range(LowerCase) \cup Digits

\* nom::bytes::streaming::take_while: no byte of the set or more, and
\* Incomplete when the input ends before a byte outside the set
take_while(set, input) ==
    IF Leading(input, set) = Len(input) THEN Incomplete(1)
    ELSE Done(Drop(input, Leading(input, set)),
              Take(input, Leading(input, set)))

\* nom::character::streaming::char
char(c, input) ==
    IF input = << >> THEN Incomplete(1)
    ELSE IF Head(input) = c THEN Done(Tail(input), c)
    ELSE Error

\* rfc1939.rs stat: count, size, the rest of the line
stat_line(input) ==
    and_then(digit1(input), LAMBDA count :
    and_then(space1(count.rest), LAMBDA s :
    and_then(digit1(s.rest), LAMBDA size :
    and_then(opt(not_line_ending_streaming(size.rest), size.rest),
             LAMBDA o :
    and_then(eol(o.rest), LAMBDA e :
        Done(e.rest, << count.val, size.val >>))))))

\* rfc1939.rs stat_response
stat_response(input) ==
    and_then(stat_line(input), LAMBDA stats :
        Done(stats.rest, Response("Stat", stats.val)))

\* rfc1939.rs list_stats: `count messages (size octets)`
list_stats(input) ==
    and_then(digit1(input), LAMBDA count :
    and_then(space1(count.rest), LAMBDA s1 :
    and_then(take_while(Alphanumeric, s1.rest), LAMBDA w1 :
    and_then(space1(w1.rest), LAMBDA s2 :
    and_then(char("(", s2.rest), LAMBDA open :
    and_then(digit1(open.rest), LAMBDA size :
    and_then(space1(size.rest), LAMBDA s3 :
    and_then(take_while(Alphanumeric, s3.rest), LAMBDA w2 :
    and_then(char(")", w2.rest), LAMBDA close :
    and_then(eol(close.rest), LAMBDA e :
        Done(e.rest, Some(<< count.val, size.val >>))))))))))))

\* UniqueIdParser::is_valid_char: the bytes 0x21 to 0x7E
is_valid_char(c) == c \notin { " ", CR, LF, NUL }

\* the most bytes of a unique id
MaxUniqueId == 70

\* the number of valid bytes the input begins with
ValidLeading(input) ==
    CHOOSE n \in 0 .. Len(input) :
        /\ \A i \in 1 .. n : is_valid_char(input[i])
        /\ n < Len(input) => ~is_valid_char(input[n + 1])

\* UniqueIdParser::parse: nom::bytes::streaming::take_while_m_n(1, 70, ..)
UniqueIdParser_parse(input) ==
    LET idx == ValidLeading(input)
    IN  IF idx < Len(input)
        THEN IF idx = 0 THEN Error
             ELSE IF idx <= MaxUniqueId
             THEN Done(Drop(input, idx), Take(input, idx))
             ELSE Done(Drop(input, MaxUniqueId), Take(input, MaxUniqueId))
        ELSE IF Len(input) >= MaxUniqueId
        THEN Done(Drop(input, MaxUniqueId), Take(input, MaxUniqueId))
        ELSE Incomplete(1)

\* rfc1939.rs uidl: index and unique id
uidl_line(input) ==
    and_then(digit1(input), LAMBDA index :
    and_then(space1(index.rest), LAMBDA s :
    and_then(UniqueIdParser_parse(s.rest), LAMBDA id :
    and_then(eol(id.rest), LAMBDA e :
        Done(e.rest, << index.val, id.val >>)))))

\* preceded(opt(tag(".")), stat) and preceded(opt(tag(".")), uidl), the
\* element parsers of the two lists
list_item(kind, input) ==
    and_then(opt(tag_streaming(<< "." >>, input), input), LAMBDA d :
        IF kind = "List" THEN stat_line(d.rest) ELSE uidl_line(d.rest))

\* nom::multi::many_till(list_item, end_of_multiline): `g` is the result
\* of end_of_multiline on the input, `f` that of the element parser
RECURSIVE many_till_items_end(_, _, _, _)
RECURSIVE many_till_items(_, _, _)
many_till_items_end(kind, input, res, g) ==
    IF g.t = "Ok" THEN Done(g.rest, res)
    ELSE IF g.t # "Error" THEN g
    ELSE many_till_items(kind, res, list_item(kind, input))

many_till_items(kind, res, f) ==
    IF f.t # "Ok" THEN f
    ELSE many_till_items_end(kind, f.rest, Append(res, f.val),
                             end_of_multiline(f.rest))

\* rfc1939.rs list_response
list_response(input) ==
    and_then(alt(list_stats(input),
                 and_then(message_parser(input), LAMBDA m :
                     Done(m.rest, None))),
             LAMBDA stats :
    and_then(many_till_items_end("List", stats.rest, << >>,
                                 end_of_multiline(stats.rest)),
             LAMBDA items :
        Done(items.rest, Response("List", items.val))))

\* rfc1939.rs uidl_list_response
uidl_list_response(input) ==
    and_then(message_parser(input), LAMBDA message :
    and_then(many_till_items_end("Uidl", message.rest, << >>,
                                 end_of_multiline(message.rest)),
             LAMBDA list_ :
        Done(list_.rest, Response("Uidl", list_.val))))

\* rfc1734.rs auth: a continuation line, `+`, spaces, the challenge, CRLF
rfc1734_auth(input) ==
    and_then(tag_streaming(<< "+" >>, input), LAMBDA t :
    and_then(space1(t.rest), LAMBDA s :
    and_then(message_parser(s.rest), LAMBDA m :
        Done(m.rest, unwrap_or_empty(m.val)))))

\* the continuation line as a response
challenge_response(input) ==
    and_then(rfc1734_auth(input), LAMBDA content :
        Done(content.rest, Response("Challenge", content.val)))

\* the commands whose response is a status line, and those whose response
\* is a status line and a body
SingleLine ==
    { "Greet", "Noop", "Dele", "Rset", "Apop", "User", "Pass", "Quit" }
MessageBody == { "Retr", "Top" }

\* Response::from_bytes: during an AUTH exchange a continuation line, and
\* otherwise the status, then the parser of the command at the head of the
\* queue, or error_response after -ERR whatever the command
from_bytes(input, command) ==
    IF command \in Handshake /\ challenge_response(input).t # "Error"
    THEN challenge_response(input)
    ELSE
    and_then(status(input), LAMBDA s :
        IF ~s.val THEN error_response(s.rest)
        ELSE IF command \in MessageBody THEN rfc822_response(s.rest)
        ELSE IF command = "Capa" THEN capability_response(s.rest)
        ELSE IF command = "List" THEN list_response(s.rest)
        ELSE IF command = "Uidl" THEN uidl_list_response(s.rest)
        ELSE IF command = "Stat" THEN stat_response(s.rest)
        ELSE string_response(s.rest))

\* ---------------------------------------------- the stream, byte by byte

\* Buffer::new
Buffer_new == [inner |-> zeroed(CHUNK_SIZE), cursor |-> 0]

\* Buffer::unused: the bytes a read may fill
Buffer_unused(b) == Len(b.inner) - b.cursor

\* Buffer::move_cursor
Buffer_move_cursor(b, offset) ==
    [b EXCEPT !.cursor = IF b.cursor + offset > Len(b.inner)
                         THEN Len(b.inner) ELSE b.cursor + offset]

\* Buffer::take: what stays in the buffer while the bytes are parsed
Buffer_take(b) == [b EXCEPT !.inner = zeroed(CHUNK_SIZE)]

\* Buffer::return_to
Buffer_return_to(b, used) == [b EXCEPT !.inner = used]

\* Buffer::reset_with, for data that fits a chunk; the slice
\* inner[..cursor] of a longer one is out of range
Buffer_reset_with(b, data) ==
    [inner |-> data \o zeroed(CHUNK_SIZE - Len(data)), cursor |-> Len(data)]

\* Buffer::grow without the check against MAX_SIZE
Buffer_grow_uncapped(b, amount) ==
    LET min_size == Len(b.inner) + amount
    IN  IF min_size % CHUNK_SIZE = 0 THEN min_size
        ELSE min_size + (CHUNK_SIZE - (min_size % CHUNK_SIZE))

\* Buffer::grow: the new length, or 0 for ResponseTooLarge
Buffer_grow(b, amount) ==
    LET min_size == Len(b.inner) + amount
        new_size == IF min_size % CHUNK_SIZE = 0 THEN min_size
                    ELSE min_size + (CHUNK_SIZE - (min_size % CHUNK_SIZE))
    IN  IF new_size > MAX_SIZE THEN 0 ELSE new_size

\* Buffer::ensure_capacity: the buffer, resized when it is full or shorter
\* than to_ensure, and the error of grow; a cursor beyond the buffer
\* overflows the subtraction or, in a release build, the slice of unused
Buffer_ensure_capacity(b, to_ensure) ==
    LET free_bytes == Len(b.inner) - b.cursor
        extra_bytes_needed == IF to_ensure > Len(b.inner)
                              THEN to_ensure - Len(b.inner) ELSE 0
        increase == IF CHUNK_SIZE > extra_bytes_needed THEN CHUNK_SIZE
                    ELSE extra_bytes_needed
        new_size == Buffer_grow(b, increase)
    IN  IF free_bytes < 0 THEN [b |-> b, kind |-> "Panic"]
        ELSE IF free_bytes = 0 \/ extra_bytes_needed > 0
        THEN IF new_size = 0 THEN [b |-> b, kind |-> "ResponseTooLarge"]
             ELSE [b |-> [b EXCEPT !.inner =
                                 @ \o zeroed(new_size - Len(b.inner))],
                   kind |-> "Ok"]
        ELSE [b |-> b, kind |-> "Ok"]

\* PopStream::new
PopStream_new(wire) ==
    [buffer |-> Buffer_new,
     decode_needs |-> 0,
     queue |-> << >>,
     stream |-> [wire |-> wire, eof |-> FALSE]]

\* no response
NoResponse == Response("None", << >>)

\* the result of PopStream::decode: the stream it leaves, Ok(None),
\* Ok(Some(response)), an error or a panic, the bytes given to the parser
\* and the bytes the parser left
Decoded(s, kind, resp, parsed, remaining) ==
    [s |-> s, kind |-> kind, resp |-> resp, parsed |-> parsed,
     remaining |-> remaining]

\* PopStream::decode, the match on the result r of Response::from_bytes
\* for the bytes `parsed`: `taken` is the stream while the buffer is taken,
\* `returned` the stream with the buffer returned
decode_match(taken, returned, parsed, r) ==
    CASE r.t = "Ok" ->
            IF Len(r.rest) > CHUNK_SIZE
            THEN Decoded([taken EXCEPT !.queue = mark_current_as_done(@),
                                       !.buffer.cursor = Len(r.rest)],
                         "Panic", r.val, parsed, r.rest)
            ELSE Decoded([taken EXCEPT !.queue = mark_current_as_done(@),
                                       !.buffer =
                                           Buffer_reset_with(@, r.rest)],
                         "Some", r.val, parsed, r.rest)
      [] r.t = "Incomplete" /\ r.needed > 0 ->
            Decoded([returned EXCEPT
                         !.decode_needs = returned.buffer.cursor + r.needed],
                    "None", NoResponse, parsed, << >>)
      [] r.t = "Incomplete" /\ r.needed = 0 ->
            Decoded([returned EXCEPT !.decode_needs = 0],
                    "None", NoResponse, parsed, << >>)
      [] OTHER ->
            Decoded(taken, "InvalidResponse", NoResponse, parsed, << >>)

\* PopStream::decode; the slice used[..cursor] of a buffer shorter than
\* the cursor is out of range
PopStream_decode(s) ==
    IF s.buffer.cursor < s.decode_needs
    THEN Decoded(s, "None", NoResponse, << >>, << >>)
    ELSE IF s.queue = << >>
    THEN Decoded(s, "MissingRequest", NoResponse, << >>, << >>)
    ELSE IF s.buffer.cursor > Len(s.buffer.inner)
    THEN Decoded([s EXCEPT !.buffer = Buffer_take(@)],
                 "Panic", NoResponse, << >>, << >>)
    ELSE decode_match([s EXCEPT !.buffer = Buffer_take(@)], s,
                      Take(s.buffer.inner, s.buffer.cursor),
                      from_bytes(Take(s.buffer.inner, s.buffer.cursor),
                                 Head(s.queue)))

\* the match of PopStream::read_response on what the stream yields
read_response_result(d) ==
    IF d.kind = "Some"
    THEN IF d.resp.type = "Err" THEN "ServerError" ELSE "Ok"
    ELSE d.kind

\* ------------------------------------------ the server and the transport

\* the most lines the server sends on after a response, unasked
MaxFurther == 2

\* the most bytes in flight from the server
MaxWire == 15

\* the commands the stream is driven with: one with a single-line response
\* and one with a message body
StreamCommands == { "Noop", "Retr" }

\* the messages of the maildrop, each a sequence of lines: a line, a line
\* that is a dot, a line that ends in a dot
Bodies ==
    { << << "a" >> >>,
      << << "." >> >>,
      << << "a", "." >> >> }

\* the lines after the status line of the multi-line responses: the scan
\* listing and the unique-id listing of a maildrop with no message, with
\* one and with two, the capability list of a server with no capability
\* and with one, and a message of no line, of one and of two
Entries(command) ==
    CASE command = "List" ->
             { << >>,
               << << "1", " ", "2" >> >>,
               << << "1", " ", "2" >>, << "2", " ", "3", "4" >> >> }
      [] command = "Uidl" ->
             { << >>,
               << << "1", " ", "a" >> >>,
               << << "1", " ", "a" >>, << "2", " ", "b", "c" >> >> }
      [] command = "Capa" -> { << >>, << TOP >> }
      [] OTHER -> { << >>, << << "a" >> >>, << << "a" >>, << "." >> >> }

\* the lines of a message as the server sends them: a line that begins
\* with the termination octet is stuffed with one more, and each line ends
\* with CRLF
RECURSIVE Stuffed(_)
Stuffed(lines) ==
    IF lines = << >> THEN << >>
    ELSE (IF Head(lines) # << >> /\ Head(Head(lines)) = "."
          THEN << "." >> ELSE << >>)
         \o Head(lines) \o END_OF_LINE \o Stuffed(Tail(lines))

\* a multi-line response carrying a message
MessageReply(lines) ==
    OK \o END_OF_LINE \o Stuffed(lines) \o << "." >> \o END_OF_LINE

\* a status line whose trailing spaces fill the first chunk
Padded == OK \o [i \in 1 .. CHUNK_SIZE - Len(OK) |-> " "] \o END_OF_LINE

\* the well-formed responses the server gives to a command
Replies(command) ==
    { ERR \o << " ", "a" >> \o END_OF_LINE }
    \cup IF command \in MessageBody
         THEN { MessageReply(lines) : lines \in Bodies }
         ELSE { OK \o END_OF_LINE, Padded }

\* what the server may send on after a response: nothing, or status lines
RECURSIVE Lines(_)
Lines(n) == IF n = 0 THEN << >> ELSE OK \o END_OF_LINE \o Lines(n - 1)

Further == { Lines(n) : n \in { 0, MaxFurther } }

\* the most capability lines in a CAPA response
MaxCapaLines == 2

\* words with a space between them
RECURSIVE Joined(_)
Joined(words) ==
    IF Len(words) = 1 THEN Head(words)
    ELSE Head(words) \o << " " >> \o Joined(Tail(words))

\* a mechanism sasl_mechanism knows, one it does not, and a capability
\* rfc2449.rs has no parser for (RFC 6856)
LOGIN == << "L", "O", "G", "I", "N" >>
SCRAM_SHA_512 ==
    << "S", "C", "R", "A", "M", "-", "S", "H", "A", "-", "5", "1", "2" >>
LANG == << "L", "A", "N", "G" >>

\* the capability lines a server sends, without their CRLF
CapaLines ==
    { TOP, to_ascii_lowercase(TOP), USER, UIDL,
      Joined(<< SASL, PLAIN >>),
      Joined(<< SASL, PLAIN, LOGIN >>),
      to_ascii_lowercase(Joined(<< SASL, PLAIN >>)),
      Joined(<< SASL, SCRAM_SHA_512 >>),
      LANG, to_ascii_lowercase(LANG) }

\* the sequences of at most n elements of S
SeqsUpTo(S, n) == UNION { [1 .. k -> S] : k \in 0 .. n }

\* the responses a server gives to CAPA
CapaReplies ==
    { MessageReply(lines) : lines \in SeqsUpTo(CapaLines, MaxCapaLines) }
    \cup { ERR \o << " ", "a" >> \o END_OF_LINE }

\* a stream on which nothing has been read yet, and no call
NoCall ==
    [command |-> "none", head |-> "none", result |-> "none",
     resp |-> NoResponse, parsed |-> << >>, remaining |-> << >>,
     at_eof |-> FALSE]

\* what a call of read_response has come to after a decode: "Pending"
\* while the stream has yielded nothing
Outcome(d, command, head, bytes_read) ==
    [command |-> command,
     head |-> head,
     result |-> IF d.kind = "None" THEN "Pending"
                ELSE read_response_result(d),
     resp |-> d.resp,
     parsed |-> d.parsed,
     remaining |-> d.remaining,
     at_eof |-> (bytes_read = 0)]


\* ------------------------------------------------------------------ state

VARIABLES
    state,          \* Client::state
    inner,          \* Client::inner is Some(stream)
    queue,          \* PopStream::queue, the commands awaiting a response
    buffer,         \* PopStream::buffer: "clean", "zeroed" or "full"
    capabilities,   \* Client::capabilities
    marked_as_del,  \* Client::marked_as_del
    greeting,       \* Client::greeting
    greeted,        \* Client::read_greeting (the greeted flag)
    last,           \* the last call: operation, arguments, result, the
                    \* request lines handed to the transport, which of
                    \* them set last_activity and which was the last
                    \* to be written, the
                    \* result of each wait for a response, the response
                    \* returned, and the
                    \* session and the history as they were when the call
                    \* was made, and, for an authentication attempt,
                    \* whether the call before it was an authentication
                    \* attempt that the server refused
    dele_ok,        \* history: the n whose dele(n), called in the
                    \* transaction state, returned Ok on the server's +OK
                    \* to DELE n, since the last rset() or quit() that
                    \* returned Ok
    tracked,        \* whether the history dele_ok is kept in this behaviour
    quit_ok,        \* history: a quit() has returned Ok
    popstream,      \* PopStream byte by byte: buffer, decode_needs, queue
                    \* and the transport (the bytes in flight, the end of
                    \* the file)
    call            \* the call of read_response on that stream: command,
                    \* the head of the queue, the result ("Pending" while
                    \* it waits), the response, the bytes last parsed,
                    \* the bytes the parser left, whether the last read
                    \* was of no bytes; for a request that was written,
                    \* its arguments and the bytes handed to the transport

vars ==
    << state, inner, queue, buffer, capabilities, marked_as_del, greeting,
       greeted, last, dele_ok, tracked, quit_ok, popstream, call >>

\* the client an operation is called on
Client ==
    [state |-> state,
     inner |-> inner,
     queue |-> queue,
     buffer |-> buffer,
     capabilities |-> capabilities,
     marked_as_del |-> marked_as_del,
     greeting |-> greeting,
     read_greeting |-> greeted,
     sent |-> << >>,
     got |-> << >>,
     last_activity |-> 0,
     delivered |-> 0]

\* the part of the session the caller can observe, before a call
Pre ==
    [state |-> state,
     inner |-> inner,
     capabilities |-> capabilities,
     marked_as_del |-> marked_as_del,
     read_greeting |-> greeted]

\* the variables take the values of the client an operation leaves
Becomes(c) ==
    /\ state' = c.state
    /\ inner' = c.inner
    /\ queue' = c.queue
    /\ buffer' = c.buffer
    /\ capabilities' = c.capabilities
    /\ marked_as_del' = c.marked_as_del
    /\ greeting' = c.greeting
    /\ greeted' = c.read_greeting

\* a call of `op` with arguments `arg` returns r
Call(op, arg, r) ==
    /\ Len(r.c.queue) <= MaxQueue
    /\ Becomes(r.c)
    /\ last' = [op |-> op, arg |-> arg, kind |-> r.kind,
                sent |-> r.c.sent, got |-> r.c.got, resp |-> r.resp,
                last_activity |-> r.c.last_activity,
                delivered |-> r.c.delivered,
                pre |-> Pre, deleted |-> dele_ok,
                after_err |-> /\ op \in { "apop", "auth", "login" }
                              /\ last.op \in { "apop", "auth", "login" }
                              /\ last.kind = "ServerError"]
    /\ dele_ok' = IF ~tracked THEN dele_ok
                  ELSE IF op = "dele" /\ r.kind = "Ok"
                          /\ state = "Transaction"
                          /\ \A i \in DOMAIN r.c.got : r.c.got[i].own
                  THEN dele_ok \cup { arg[1] }
                  ELSE IF op \in { "rset", "quit" } /\ r.kind = "Ok" THEN { }
                  ELSE dele_ok
    /\ tracked' = tracked
    /\ quit_ok' = (quit_ok \/ (op = "quit" /\ r.kind = "Ok"))
    /\ UNCHANGED << popstream, call >>

\* a client returned by new, connect or connect_plain
Created(history) ==
    \E r \in create_client_from_socket :
        /\ r.kind = "Ok"
        /\ Len(r.c.queue) <= MaxQueue
        /\ state = r.c.state
        /\ inner = r.c.inner
        /\ queue = r.c.queue
        /\ buffer = r.c.buffer
        /\ capabilities = r.c.capabilities
        /\ marked_as_del = r.c.marked_as_del
        /\ greeting = r.c.greeting
        /\ greeted = r.c.read_greeting
        /\ last = [op |-> "new", arg |-> << >>, kind |-> r.kind,
                   sent |-> r.c.sent, got |-> r.c.got, resp |-> r.resp,
                   last_activity |-> r.c.last_activity,
                   delivered |-> r.c.delivered,
                   pre |-> [state |-> fresh.state,
                            inner |-> fresh.inner,
                            capabilities |-> fresh.capabilities,
                            marked_as_del |-> fresh.marked_as_del,
                            read_greeting |-> fresh.read_greeting],
                   deleted |-> { },
                   after_err |-> FALSE]
        /\ dele_ok = { }
        /\ tracked = history
        /\ quit_ok = FALSE
        /\ popstream = PopStream_new(<< >>)
        /\ call = NoCall

Init == Created(FALSE)

\* the same client, with the history of the successful dele calls kept
InitTracked == Created(TRUE)

\* ---------------------------------------------------------------- actions

Noop == \E r \in noop(Client) : Call("noop", << >>, r)

Stat == \E r \in stat(Client) : Call("stat", << >>, r)

List ==
    \E n \in Msgs \cup { NoMsg } :
        \E r \in list(Client, n) : Call("list", << n >>, r)

Uidl ==
    \E n \in Msgs \cup { NoMsg } :
        \E r \in uidl(Client, n) : Call("uidl", << n >>, r)

Retr == \E n \in Msgs : \E r \in retr(Client, n) : Call("retr", << n >>, r)

Top ==
    \E n \in Msgs, k \in { 0 } :
        \E r \in top(Client, n, k) : Call("top", << n, k >>, r)

Dele == \E n \in Msgs : \E r \in dele(Client, n) : Call("dele", << n >>, r)

Rset == \E r \in rset(Client) : Call("rset", << >>, r)

IsDeleted ==
    \E n \in Msgs :
        LET d == is_deleted(Client, n)
        IN  Call("is_deleted", << n >>,
                 Ret(d.c, IF d.found THEN "true" ELSE "false", NoResp))

HasCapability ==
    \E capabilities_ \in Queries :
        Call("has_capability", capabilities_,
             Ret(Client,
                 IF has_capability(Client, capabilities_) THEN "true"
                 ELSE "false",
                 NoResp))

Apop == \E r \in apop(Client) : Call("apop", << >>, r)

Auth ==
    \E m \in { PLAIN, XOAUTH2 } :
        \E r \in auth(Client, m) : Call("auth", << m >>, r)

Login == \E r \in login(Client) : Call("login", << >>, r)

Capa == \E r \in capa(Client) : Call("capa", << >>, r)

Quit == \E r \in quit(Client) : Call("quit", << >>, r)

Next ==
    \/ Noop \/ Stat \/ List \/ Uidl \/ Retr \/ Top \/ Dele \/ Rset
    \/ IsDeleted \/ HasCapability \/ Apop \/ Auth \/ Login \/ Capa \/ Quit

Spec == Init /\ [][Next]_vars

SpecTracked == InitTracked /\ [][Next]_vars

\* ------------------------------------------- the authentication exchange

\* auth with a mechanism whose handler exchanges challenges and replies
AuthHandled ==
    \E rounds \in 1 .. MaxRounds :
        \E r \in auth_handled(Client, SCRAM_SHA_512, rounds) :
            Call("auth", << SCRAM_SHA_512, rounds >>, r)

NextSasl == AuthHandled \/ Auth \/ Apop \/ Login \/ Noop \/ Capa \/ Quit

SpecSasl == Init /\ [][NextSasl]_vars

\* ------------------------------------------------ steps of the stream

\* the session takes no part in the steps of the stream
session ==
    << state, inner, queue, buffer, capabilities, marked_as_del, greeting,
       greeted, last, dele_ok, tracked, quit_ok >>

InitStream ==
    /\ state = fresh.state
    /\ inner = fresh.inner
    /\ queue = fresh.queue
    /\ buffer = fresh.buffer
    /\ capabilities = fresh.capabilities
    /\ marked_as_del = fresh.marked_as_del
    /\ greeting = fresh.greeting
    /\ greeted = fresh.read_greeting
    /\ last = [op |-> "none"]
    /\ dele_ok = { }
    /\ tracked = FALSE
    /\ quit_ok = FALSE
    /\ popstream = PopStream_new(<< >>)
    /\ call = NoCall

\* a decode of the stream gave d, in a call of read_response(command) with
\* `head` at the head of the queue, after a read of bytes_read bytes (-1
\* when nothing was read)
Yields(d, command, head, bytes_read) ==
    /\ popstream' = d.s
    /\ call' = Outcome(d, command, head, bytes_read)

\* PopStream::read_response up to the first poll of the stream: the command
\* is queued and what the buffer holds is decoded. The request has been
\* written, so the server's response, and what it sends on, is in flight.
ReadResponse ==
    \E command \in StreamCommands :
        \E reply \in Replies(command), further \in Further :
            LET wire == IF popstream.stream.eof THEN popstream.stream.wire
                        ELSE popstream.stream.wire \o reply \o further
                s == [popstream EXCEPT !.queue = add(@, command),
                                       !.stream.wire = wire]
            IN  /\ call.result \notin { "Pending", "Panic" }
                /\ Len(popstream.queue) <= MaxQueue
                /\ Len(wire) <= MaxWire
                /\ Yields(PopStream_decode(s), command, Head(s.queue), -1)
                /\ UNCHANGED session

\* one turn of the loop of poll_next in which the transport reads
\* bytes_read bytes, none at the end of the file: ensure_capacity, the read
\* into the unused part of the buffer, move_cursor and decode
Read ==
    LET e == Buffer_ensure_capacity(popstream.buffer,
                                    popstream.decode_needs)
        wire == popstream.stream.wire
    IN  /\ call.result = "Pending"
        /\ e.kind = "Ok"
        /\ \E bytes_read \in 0 .. Buffer_unused(e.b) :
               LET b == [e.b EXCEPT !.inner =
                             Take(@, e.b.cursor) \o Take(wire, bytes_read)
                             \o Drop(@, e.b.cursor + bytes_read)]
                   s == [popstream EXCEPT
                             !.buffer = Buffer_move_cursor(b, bytes_read),
                             !.stream.wire = Drop(wire, bytes_read)]
               IN  /\ bytes_read <= Len(wire)
                   /\ bytes_read = 0 <=>
                          popstream.stream.eof /\ wire = << >>
                   /\ Yields(PopStream_decode(s), call.command,
                             Head(s.queue), bytes_read)
        /\ UNCHANGED session

\* the turn of the loop in which ensure_capacity fails
Overflow ==
    LET e == Buffer_ensure_capacity(popstream.buffer,
                                    popstream.decode_needs)
    IN  /\ call.result = "Pending"
        /\ e.kind # "Ok"
        /\ popstream' = [popstream EXCEPT !.buffer = e.b]
        /\ call' = [call EXCEPT !.result = e.kind]
        /\ UNCHANGED session

\* the turn of the loop in which the read fails
ReadError ==
    LET e == Buffer_ensure_capacity(popstream.buffer,
                                    popstream.decode_needs)
    IN  /\ call.result = "Pending"
        /\ e.kind = "Ok"
        /\ popstream' = [popstream EXCEPT !.buffer = e.b]
        /\ call' = [call EXCEPT !.result = "Io"]
        /\ UNCHANGED session

\* the server closes the connection
Close ==
    /\ ~popstream.stream.eof
    /\ popstream' = [popstream EXCEPT !.stream.eof = TRUE]
    /\ UNCHANGED << call, session >>

NextStream == ReadResponse \/ Read \/ Overflow \/ ReadError \/ Close

SpecStream == InitStream /\ [][NextStream]_vars

\* ------------------------------------------------ the parser on its own

\* what PopStream::decode makes of the result r of Response::from_bytes on
\* the bytes `input`, all of which are in the buffer
from_bytes_decoded(input, r) ==
    Decoded(popstream,
            IF r.t = "Ok" THEN "Some"
            ELSE IF r.t = "Incomplete" THEN "None"
            ELSE "InvalidResponse",
            IF r.t = "Ok" THEN r.val ELSE NoResponse,
            input,
            IF r.t = "Ok" THEN r.rest ELSE << >>)

\* the response to CAPA is parsed in one piece
Parse ==
    \E input \in CapaReplies :
        /\ call' = Outcome(from_bytes_decoded(input,
                                              from_bytes(input, "Capa")),
                           "Capa", "Capa", -1)
        /\ UNCHANGED << popstream, session >>

\* the commands whose response the parser is given: one with a single-line
\* response and the five with a multi-line one
ParseCommands == { "Noop", "Retr", "Top", "List", "Uidl", "Capa" }

\* the commands whose response ends with the termination line
MultiLine == { "Retr", "Top", "List", "Uidl", "Capa" }

\* the well-formed responses to a command, those of no entry and of an
\* empty message among them
ParseReplies(command) ==
    { ERR \o << " ", "a" >> \o END_OF_LINE }
    \cup IF command \in MultiLine
         THEN { MessageReply(lines) : lines \in Entries(command) }
         ELSE { OK \o END_OF_LINE, Padded }

\* what is in the buffer behind the response to the head command: nothing,
\* status lines, or the multi-line response to the next command
Behind == Further \cup { MessageReply(<< << "a" >> >>) }

\* the parser is given, on a stream nothing was read from, what has
\* arrived so far of a response and of what the server sent behind it
ParseArrived ==
    /\ call = NoCall
    /\ \E command \in ParseCommands :
        \E reply \in ParseReplies(command), behind \in Behind :
            \E n \in 0 .. Len(reply \o behind) :
                LET input == Take(reply \o behind, n)
                IN  /\ call' = Outcome(
                                   from_bytes_decoded(
                                       input, from_bytes(input, command)),
                                   command, command, -1)
                    /\ UNCHANGED << popstream, session >>

NextParse == Parse \/ ParseArrived

SpecParse == InitStream /\ [][NextParse]_vars

\* ------------------------------------------------- the request on the wire

\* the most bytes in an argument the caller passes
MaxArg == 2

\* the argument strings a caller may pass: empty, with a space, with CR and
\* with LF among them
ArgStrings == SeqsUpTo({ "a", " ", "\r", "\n" }, MaxArg)

\* the key of a command in Command::definitions
definitions(command) ==
    CASE command = "Noop" -> << "n", "o", "o", "p" >>
      [] command = "Dele" -> << "d", "e", "l", "e" >>
      [] command = "Apop" -> << "a", "p", "o", "p" >>
      [] command = "User" -> << "u", "s", "e", "r" >>
      [] command = "Pass" -> << "p", "a", "s", "s" >>
      [] OTHER -> << >>

\* str::to_ascii_uppercase, on the letters of the keys
to_ascii_uppercase(s) ==
    [i \in DOMAIN s |->
        CASE s[i] = "a" -> "A" [] s[i] = "d" -> "D" [] s[i] = "e" -> "E"
          [] s[i] = "l" -> "L" [] s[i] = "n" -> "N" [] s[i] = "o" -> "O"
          [] s[i] = "p" -> "P" [] s[i] = "r" -> "R" [] s[i] = "s" -> "S"
          [] s[i] = "u" -> "U" [] OTHER -> s[i]]

\* Display for Command: the key of the command in upper case
Command_fmt(command) == to_ascii_uppercase(definitions(command))

\* Display for Request: the command, then a space and the argument for
\* each argument
RECURSIVE Request_fmt(_, _)
Request_fmt(command, args) ==
    IF args = << >> THEN Command_fmt(command)
    ELSE Request_fmt(command, Take(args, Len(args) - 1))
         \o << " " >> \o args[Len(args)]

\* PopStream::send_bytes: the bytes handed to the transport, the buffer and
\* then END_OF_LINE
send_bytes(buf) == buf \o END_OF_LINE

\* usize::to_string of a message number
usize_to_string(n) == << CHOOSE d \in Digits : d = ToString(n) >>

\* the requests the operations build: noop(), dele(n), login's USER and
\* PASS, and apop(name, digest)
Requests ==
    { [command |-> "Noop", args |-> << >>] }
    \cup { [command |-> "Dele", args |-> << usize_to_string(n) >>]
           : n \in Msgs }
    \cup { [command |-> c, args |-> << s >>]
           : c \in { "User", "Pass" }, s \in ArgStrings }
    \cup { [command |-> "Apop", args |-> << name, digest >>]
           : name \in ArgStrings, digest \in ArgStrings }

\* a request is queued and written
SendBytes ==
    \E request \in Requests :
        /\ call' = [command |-> request.command,
                    head |-> request.command,
                    result |-> "Written",
                    resp |-> NoResponse,
                    parsed |-> << >>,
                    remaining |-> << >>,
                    at_eof |-> FALSE,
                    args |-> request.args,
                    written |-> send_bytes(Request_fmt(request.command,
                                                       request.args))]
        /\ UNCHANGED << popstream, session >>

NextRequest == SendBytes

SpecRequest == InitStream /\ [][NextRequest]_vars

\* ----------------------------------------------------------------- claims

\* the operations of the TRANSACTION state
TransactionOps ==
    { "noop", "stat", "list", "uidl", "retr", "top", "dele", "rset" }

\* the operations of the AUTHORIZATION state
AuthorizationOps == { "apop", "auth", "login" }

\* the operations that write a request
SessionOps == TransactionOps \cup AuthorizationOps \cup { "capa", "quit" }

\* the last call returned an error
Failed == last.op \in SessionOps /\ last.kind # "Ok"

\* the last call left the session as it found it
SessionUnchanged == Pre = last.pre

\* the last call handed nothing to the transport
WroteNothing == last.sent = << >>

\* the last call was made on a session that a quit() returning Ok had
\* closed
OnClosed == last.op \in SessionOps /\ last.pre.state = "None" /\ quit_ok

\* every response the last call read answered the request it had sent for it
Aligned == \A i \in DOMAIN last.got : last.got[i].own

\* the i-th response the last call read was a -ERR
ErrAt(i) == last.got[i].status = "-ERR"

\* C1: after a dele(n) that returned Ok, is_deleted(n) returns true until
\* the next rset() or quit() that returns Ok.
C1_DeletedUntilReset ==
    (last.op = "is_deleted" /\ last.arg[1] \in last.deleted)
        => last.kind = "true"

\* C2: once dele(n) has returned Ok and no rset() has returned Ok since,
\* retr(n), top(n, k), list(n), uidl(n) and dele(n) fail with
\* MessageIsDeleted and write nothing.
C2_DeletedIsRefused ==
    (/\ last.op \in { "retr", "top", "list", "uidl", "dele" }
     /\ last.arg[1] \in last.deleted)
        => (last.kind = "MessageIsDeleted" /\ WroteNothing)

\* C3: after an rset() that returned Ok, is_deleted(n) is false for every
\* message number n; an rset() answered -ERR leaves the deletion set as it
\* was.
C3_RsetClears ==
    /\ (last.op = "rset" /\ last.kind = "Ok")
           => \A n \in Msgs : ~is_deleted(Client, n).found
    /\ (last.op = "rset" /\ last.kind = "ServerError")
           => marked_as_del = last.pre.marked_as_del

\* an rset() that wrote RSET has just returned Ok in the transaction state
C3_Witness ==
    /\ last.op = "rset" /\ last.kind = "Ok"
    /\ last.sent = << << "Rset", << >> >> >>
    /\ last.pre.state = "Transaction"

\* C4: noop, stat, list, uidl, retr, top, dele and rset called in the
\* AUTHORIZATION state fail with IncorrectStateForCommand and write nothing.
C4_TransactionOnly ==
    (last.op \in TransactionOps /\ last.pre.state = "Authentication")
        => (last.kind = "IncorrectStateForCommand" /\ WroteNothing)

\* C5: when quit() returns Ok the state is None, the transport is not held,
\* the deletion set and the capabilities are empty and the greeted flag is
\* false; a quit() answered -ERR changes none of these.
C5_QuitCloses ==
    /\ (last.op = "quit" /\ last.kind = "Ok")
           => /\ state = "None"
              /\ ~inner
              /\ marked_as_del = << >>
              /\ capabilities = << >>
              /\ ~greeted
    /\ (last.op = "quit" /\ last.kind = "ServerError") => SessionUnchanged

\* quit() has just returned Ok on an authenticated, greeted session with
\* capabilities
C5_Witness ==
    /\ last.op = "quit" /\ last.kind = "Ok"
    /\ last.pre.state = "Transaction"
    /\ last.pre.read_greeting
    /\ last.pre.capabilities # << >>

\* C6 as stated: every operation on a session that quit() has closed fails
\* with NotConnected.
C6_NotConnected == OnClosed => last.kind = "NotConnected"

\* C6, amended: every operation on a session that quit() has closed fails,
\* writes nothing and changes nothing: apop, auth and login with
\* IncorrectStateForCommand, uidl and top with FeatureUnsupported, the
\* others with NotConnected.
C6_ClosedRefuses ==
    OnClosed
        => /\ WroteNothing
           /\ SessionUnchanged
           /\ last.kind =
                  IF last.op \in AuthorizationOps
                  THEN "IncorrectStateForCommand"
                  ELSE IF last.op \in { "uidl", "top" }
                  THEN "FeatureUnsupported"
                  ELSE "NotConnected"

\* uidl was called on a session that quit() has closed
C6_Witness == OnClosed /\ last.op = "uidl" /\ ~last.pre.inner

\* a -ERR that the code does not hand to the caller: the one that answers
\* the CAPA refresh within apop, auth and login (update_capabilities drops
\* the error), and the one that answers the AUTH PLAIN attempt of login
\* (login goes on with USER and PASS)
Swallowed(i) ==
    \/ last.got[i].cmd = "Capa" /\ last.op \in AuthorizationOps
    \/ last.got[i].cmd = "Auth" /\ last.op = "login"

\* the last call returned ServerError and left the state, the deletion set
\* and the capabilities as they were
ServerErrorAndUnchanged ==
    /\ last.kind = "ServerError"
    /\ state = last.pre.state
    /\ marked_as_del = last.pre.marked_as_del
    /\ capabilities = last.pre.capabilities

\* C7 as stated: an operation one of whose requests the server answered
\* with -ERR returns ServerError and leaves the state, the deletion set and
\* the capabilities as they were.
C7_ErrIsServerError ==
    (last.op \in SessionOps /\ Aligned
     /\ \E i \in DOMAIN last.got : ErrAt(i))
        => ServerErrorAndUnchanged

\* C7, amended: an operation that read a -ERR returns ServerError and leaves
\* the state, the deletion set and the capabilities as they were, unless the
\* -ERR answers the CAPA refresh that follows an authentication or the
\* AUTH PLAIN attempt of login.
C7_ErrNotSwallowed ==
    (last.op \in SessionOps
     /\ \E i \in DOMAIN last.got : ErrAt(i) /\ ~Swallowed(i))
        => ServerErrorAndUnchanged

\* login has just returned ServerError: USER was answered +OK, PASS -ERR
C7_Witness ==
    /\ last.op = "login" /\ last.kind = "ServerError"
    /\ Len(last.got) = 2
    /\ last.got[1].cmd = "User" /\ last.got[1].status = "+OK"
    /\ last.got[2].cmd = "Pass" /\ last.got[2].status = "-ERR"
    /\ Aligned

\* C8: an operation that returns an error, of any kind, leaves the session
\* as it found it, whatever operations came before.
C8_ErrorChangesNothing == Failed => SessionUnchanged

\* C9: the transport is held exactly when the state is Authentication or
\* Transaction.
C9_TransportIffOpen ==
    inner <=> state \in { "Authentication", "Transaction" }

\* quit() has just dropped the transport of an authenticated session
C9_Witness ==
    /\ last.op = "quit"
    /\ last.pre.inner /\ last.pre.state = "Transaction"
    /\ ~inner /\ state = "None"

\* C10: the state changes only from Authentication to Transaction, when
\* apop, auth or login returns Ok, and from Authentication or Transaction to
\* None, when quit returns Ok.
C10_Transitions ==
    state # last.pre.state
        => \/ /\ last.pre.state = "Authentication"
              /\ state = "Transaction"
              /\ last.op \in AuthorizationOps
              /\ last.kind = "Ok"
           \/ /\ last.pre.state \in { "Authentication", "Transaction" }
              /\ state = "None"
              /\ last.op = "quit"
              /\ last.kind = "Ok"


\* C11: every response that a call's read_response returned was decoded with
\* the awaited command at the head of the command queue, also when an earlier
\* operation ended with an error.
C11_DecodedAsAwaited ==
    \A i \in DOMAIN last.got :
        last.got[i].status \in { "+OK", "-ERR" } => last.got[i].own

\* C12: at most one command is outstanding: the command queue holds at most
\* one entry after every call and whenever a response is decoded.
C12_OneOutstanding ==
    /\ Len(queue) <= 1
    /\ \A i \in DOMAIN last.got : last.got[i].queued <= 1


\* C13: when the transport reports the end of the file (a read of no
\* bytes) while a response is awaited, the read ends and the call fails
\* with ConnectionClosed.
C13_EofClosesConnection ==
    call.at_eof => call.result = "ConnectionClosed"

\* input is a proper prefix of w
ProperPrefix(input, w) == Len(input) < Len(w) /\ input = Take(w, Len(input))

\* C14: however the bytes of a well-formed response w to the command at the
\* head of the queue are split into reads, no proper prefix of w is reported
\* as malformed, and the response returned once w has arrived is the one
\* that w parses to in one piece.
C14_Incremental ==
    \A w \in Replies(call.head) :
        /\ call.result = "InvalidResponse" => ~ProperPrefix(call.parsed, w)
        /\ call.result \in { "Ok", "ServerError" }
           /\ StartsWith(call.parsed, w) =>
               call.resp = from_bytes(w, call.head).val

\* the lines of a message, each with its CRLF
RECURSIVE Body(_)
Body(lines) ==
    IF lines = << >> THEN << >>
    ELSE Head(lines) \o END_OF_LINE \o Body(Tail(lines))

\* C15: the bytes returned for a RETR or TOP response are the lines of the
\* server's message, each without the dot it was stuffed with, and without
\* the terminating line (with or without the CRLF of the last line); a line
\* that ends in a dot does not end the message.
C15_DotUnstuffed ==
    \A lines \in Bodies :
        call.result = "Ok" /\ call.head \in MessageBody
        /\ StartsWith(call.parsed, MessageReply(lines)) =>
            \/ call.resp.data = Body(lines)
            \/ call.resp.data \o END_OF_LINE = Body(lines)

\* C16: when decode recognises a response that k further bytes follow in
\* the buffer, it returns the response and leaves those k bytes at the start
\* of the buffer, with the cursor at k.
C16_LeftoverKept ==
    call.resp # NoResponse =>
        /\ call.result # "Panic"
        /\ popstream.buffer.cursor = Len(call.remaining)
        /\ Take(popstream.buffer.inner, Len(call.remaining)) = call.remaining

\* the capability list the session held when the last call began
Held == [capabilities |-> last.pre.capabilities]

\* the last call got as far as its capability refresh, and CAPA was
\* answered -ERR
CapaRefused ==
    /\ last.got # << >>
    /\ last.got[Len(last.got)].cmd = "Capa"
    /\ last.got[Len(last.got)].status = "-ERR"

\* C17 as stated: a successful capa() replaces the session's capability set
\* with the set it returns; a failed capa() leaves the set unchanged.
C17_CapaReplaces ==
    last.op = "capa" =>
        IF last.kind = "Ok" THEN capabilities = last.resp.caps
        ELSE capabilities = last.pre.capabilities

\* C17 as amended: a successful capa() returns the list the server sent and,
\* like a failed one, leaves the session's capability set as it was.
C17_CapaReturns ==
    last.op = "capa" =>
        /\ capabilities = last.pre.capabilities
        /\ last.kind = "Ok" =>
               /\ last.resp.type = "Capability"
               /\ last.resp.caps \in ServerCapabilities

\* capa() returned a list that differs from the one the session holds
C17_Witness ==
    /\ last.op = "capa"
    /\ last.kind = "Ok"
    /\ last.pre.state = "Transaction"
    /\ last.resp.caps # capabilities
    /\ capabilities # << >>

\* C18: construction and every successful apop, auth or login hand a CAPA
\* request to the transport as the last thing before they return; when that
\* CAPA is answered -ERR the capability set is the one held before, the
\* operation returns Ok all the same and, for the three authenticating
\* operations, the state is Transaction.
C18_RefreshAfterAuth ==
    last.op \in AuthorizationOps \cup { "new" } =>
        /\ last.kind = "Ok" =>
               /\ last.sent # << >>
               /\ last.sent[Len(last.sent)] = << "Capa", << >> >>
        /\ last.kind = "Ok" /\ CapaRefused =>
               /\ capabilities = last.pre.capabilities
               /\ last.op # "new" => state = "Transaction"
        /\ Aligned /\ CapaRefused => last.kind = "Ok"

\* apop succeeded on a session that held a capability list, and the CAPA that
\* followed was answered -ERR
C18_Witness ==
    /\ last.op = "apop"
    /\ last.kind = "Ok"
    /\ Aligned
    /\ CapaRefused
    /\ last.pre.capabilities # << >>
    /\ state = "Transaction"

\* a call of auth that passed the state, greeting and transport checks with a
\* mechanism that no Sasl entry of the capability set lists
AuthNotOffered ==
    /\ last.op = "auth"
    /\ last.pre.state = "Authentication"
    /\ last.pre.read_greeting
    /\ last.pre.inner
    /\ ~has_auth_mechanism(Held, last.arg[1])

\* C19 as stated: auth(mechanism) called when no Sasl entry of the capability
\* set lists the mechanism fails with FeatureUnsupported and writes nothing.
C19_AuthNeedsMechanism ==
    AuthNotOffered => last.kind = "FeatureUnsupported" /\ WroteNothing

\* C19 as amended: auth(mechanism) does not consult the capability set; when
\* no Sasl entry lists the mechanism it still hands AUTH with the mechanism
\* and its initial response to the transport, and it never fails with
\* FeatureUnsupported.
C19_AuthAsksServer ==
    /\ last.op = "auth" => last.kind # "FeatureUnsupported"
    /\ AuthNotOffered =>
           /\ last.sent # << >>
           /\ last.sent[1][1] = "Auth"
           /\ last.sent[1][2][1] = last.arg[1]

\* auth with a mechanism the server did not offer was answered +OK
C19_Witness ==
    /\ AuthNotOffered
    /\ last.kind = "Ok"
    /\ Aligned
    /\ state = "Transaction"

\* C20: uidl called when the capability set lacks Uidl, and top called when
\* it lacks Top, fail with FeatureUnsupported and write nothing.
C20_NeedsCapability ==
    /\ last.op = "uidl" /\ ~has_capability(Held, << CapUidl >>) =>
           last.kind = "FeatureUnsupported" /\ WroteNothing
    /\ last.op = "top" /\ ~has_capability(Held, << CapTop >>) =>
           last.kind = "FeatureUnsupported" /\ WroteNothing

\* top was refused on an open, authenticated session whose server offers
\* neither TOP nor UIDL
C20_Witness ==
    /\ last.op = "top"
    /\ last.pre.state = "Transaction"
    /\ last.pre.inner
    /\ last.pre.capabilities = << CapUser >>
    /\ last.kind = "FeatureUnsupported"

\* login was called with SASL PLAIN in the capability set, and the first
\* response it read answered its AUTH PLAIN with +OK
PlainAccepted ==
    /\ last.op = "login"
    /\ has_auth_mechanism(Held, PLAIN)
    /\ last.got # << >>
    /\ last.got[1].cmd = "Auth" /\ last.got[1].own
    /\ last.got[1].status = "+OK"

\* C21: when the capability set includes SASL PLAIN and the server answers
\* +OK to AUTH PLAIN, login hands exactly one AUTH PLAIN request with the
\* initial response to the transport, then a CAPA request and nothing else
\* (neither USER nor PASS), returns Ok and leaves the state Transaction.
C21_LoginPlain ==
    PlainAccepted =>
        /\ last.sent = << << "Auth", << PLAIN, initial_response(PLAIN) >> >>,
                          << "Capa", << >> >> >>
        /\ last.sent[1][2][2] = "base64(NUL user NUL password)"
        /\ last.kind = "Ok"
        /\ state = "Transaction"

\* login authenticated with AUTH PLAIN and the CAPA that followed was
\* answered with a capability list
C21_Witness ==
    /\ PlainAccepted
    /\ Aligned
    /\ Len(last.got) = 2
    /\ last.got[2].cmd = "Capa" /\ last.got[2].status = "+OK"
    /\ last.pre.state = "Authentication"
    /\ state = "Transaction"

\* C22: apop, auth and login called while the state is Transaction fail with
\* IncorrectStateForCommand, hand nothing to the transport and leave the
\* state, the capability set and the deletion set as they were.
C22_AuthorizationOnly ==
    (last.op \in AuthorizationOps /\ last.pre.state = "Transaction")
        => /\ last.kind = "IncorrectStateForCommand"
           /\ WroteNothing
           /\ last.got = << >>
           /\ state = "Transaction"
           /\ capabilities = last.pre.capabilities
           /\ marked_as_del = last.pre.marked_as_del

\* login was refused on an authenticated session whose server offers
\* SASL PLAIN
C22_Witness ==
    /\ last.op = "login"
    /\ last.pre.state = "Transaction"
    /\ last.pre.inner /\ last.pre.read_greeting
    /\ has_auth_mechanism(Held, PLAIN)
    /\ last.kind = "IncorrectStateForCommand"

\* the requests that authenticate
AuthRequests == { "Apop", "Auth", "User", "Pass" }

\* the session as it is, had the greeting not been read
Ungreeted == [Client EXCEPT !.read_greeting = FALSE]

\* the outcomes of the three authenticating operations on c
Authenticate(c) ==
    apop(c) \cup auth(c, PLAIN) \cup auth(c, XOAUTH2) \cup login(c)

\* C23: no APOP, AUTH, USER or PASS request is handed to the transport
\* unless the greeting has been read and the greeted flag is true: every call
\* that wrote one was made on a greeted session, and on the session without
\* the flag no authenticating operation writes anything.
C23_GreetedFirst ==
    /\ (\E i \in DOMAIN last.sent : last.sent[i][1] \in AuthRequests)
           => last.pre.read_greeting /\ greeting = "banner"
    /\ \A r \in Authenticate(Ungreeted) :
           r.kind # "Ok" /\ r.c.sent = << >>

\* apop wrote APOP on a greeted session that awaits authentication
C23_Witness ==
    /\ last.op = "apop"
    /\ last.sent # << >> /\ last.sent[1][1] = "Apop"
    /\ last.pre.read_greeting
    /\ last.pre.state = "Authentication"
    /\ Authenticate(Ungreeted) =
           { Ret(Ungreeted, "ServerFailedToGreet", NoResp) }

\* the banner that a construction read was a +OK line
BannerOk(r) ==
    /\ r.c.got # << >>
    /\ r.c.got[1].cmd = "Greet"
    /\ r.c.got[1].status = "+OK"

\* C24: every client returned by new, connect or connect_plain is in the
\* state Authentication (AUTHORIZATION) with the greeted flag true and the
\* greeting holding the banner, which the server sent as +OK; when the
\* banner is -ERR or malformed, or does not arrive, construction returns an
\* error and no client.
C24_GreetedClient ==
    /\ last.op = "new" =>
           /\ state = "Authentication"
           /\ inner
           /\ greeted
           /\ greeting = "banner"
           /\ last.got[1].cmd = "Greet" /\ last.got[1].status = "+OK"
    /\ \A r \in create_client_from_socket :
           /\ r.kind = "Ok" =>
                  /\ BannerOk(r)
                  /\ r.c.state = "Authentication"
                  /\ r.c.read_greeting
                  /\ r.c.greeting = "banner"
           /\ ~BannerOk(r) => r.kind # "Ok"

\* a client has just been returned, with the capabilities of its server, and
\* construction has outcomes with a -ERR banner and with a malformed one
C24_Witness ==
    /\ last.op = "new" /\ last.kind = "Ok"
    /\ capabilities # << >>
    /\ \E r \in create_client_from_socket :
           r.kind = "ServerError" /\ r.c.got[1].status = "-ERR"
    /\ \E r \in create_client_from_socket :
           r.kind = "InvalidResponse"

\* the capability set the session holds has a capability with the tag of x
HasTag(x) == \E i \in DOMAIN capabilities : capabilities[i].tag = x.tag

\* C25: has_capability compares by variant tag, not by parameters: a query
\* for one capability is satisfied whenever the session's set contains a
\* capability of the same tag, whatever the parameters of the two.
C25_ByTag ==
    (last.op = "has_capability" /\ Len(last.arg) = 1 /\ HasTag(last.arg[1]))
        => last.kind = "true"

\* C26: has_capability(list) returns true when the session's set contains
\* one of the capabilities of the list, for lists of one, of several and of
\* repeated entries.
C26_OneOf ==
    (/\ last.op = "has_capability"
     /\ \E j \in DOMAIN last.arg : last.arg[j] \in Range(capabilities))
        => last.kind = "true"

\* the text of the status line that begins `input`: what follows the -ERR
\* and the spaces after it, up to the end of the line
StatusText(input) ==
    LET line == Drop(input, Len(ERR))
        text == Drop(line, Spaces(line))
    IN  Take(text, LineLength(text))

UnknownNames == { LANG, to_ascii_lowercase(LANG) }

\* capability lines the client knows, with the capability each decodes to
Usual ==
    { [line |-> TOP, capa |-> CapTop],
      [line |-> UIDL, capa |-> CapUidl],
      [line |-> Joined(<< SASL, PLAIN >>), capa |-> CapSaslPlain] }

\* the CAPA response with the capability lines `lines` was parsed and gave
\* the capability list `capas`
DecodesTo(lines, capas) ==
    call.parsed = MessageReply(lines) =>
        /\ call.result = "Ok"
        /\ call.resp = Response("Capability", capas)

\* C28: a CAPA response with a capability line whose name the client does
\* not know, in upper or in lower case, decodes with that line as
\* Other(name) and the other lines as usual.
C28_UnknownIsOther ==
    \A name \in UnknownNames :
        /\ DecodesTo(<< name >>, << Cap("Other", << name >>) >>)
        /\ \A u \in Usual :
               /\ DecodesTo(<< u.line, name >>,
                            << u.capa, Cap("Other", << name >>) >>)
               /\ DecodesTo(<< name, u.line >>,
                            << Cap("Other", << name >>), u.capa >>)

\* lists of mechanism tokens a server may advertise
TokenLists ==
    { << PLAIN >>, << PLAIN, LOGIN >>, << to_ascii_lowercase(PLAIN) >>,
      << SCRAM_SHA_512 >> }

\* C29: a capability line SASL followed by a space-separated list of
\* mechanism tokens decodes to Sasl with those tokens in order, and
\* has_auth_mechanism is then true of each token, in either case.
C29_SaslTokens ==
    \A tokens \in TokenLists :
        call.parsed = MessageReply(<< Joined(<< SASL >> \o tokens) >>) =>
            /\ call.result = "Ok"
            /\ call.resp = Response("Capability", << Cap("Sasl", tokens) >>)
            /\ \A i \in DOMAIN tokens :
                   /\ has_auth_mechanism([capabilities |-> call.resp.data],
                                         tokens[i])
                   /\ has_auth_mechanism([capabilities |-> call.resp.data],
                                         to_ascii_lowercase(tokens[i]))


\* C30: in every reachable state the length of the read buffer is a positive
\* multiple of CHUNK_SIZE and at most MAX_SIZE (2048 bytes and 2048 * 1024 *
\* 10 bytes in the source, CHUNK_SIZE and CHUNK_SIZE * MaxChunks here); a
\* read that is still pending with the buffer full at MAX_SIZE fails with
\* ResponseTooLarge, and the failed read leaves the buffer as it was
C30_BufferCapped ==
    LET len == Len(popstream.buffer.inner)
        e == Buffer_ensure_capacity(popstream.buffer, popstream.decode_needs)
    IN  /\ len > 0
        /\ len % CHUNK_SIZE = 0
        /\ len <= MAX_SIZE
        /\ (call.result = "Pending" /\ popstream.buffer.cursor = MAX_SIZE)
               => e.kind = "ResponseTooLarge"
        /\ call.result = "ResponseTooLarge"
               => e = [b |-> popstream.buffer, kind |-> "ResponseTooLarge"]

\* a read that failed with the buffer full at MAX_SIZE
C30_Witness ==
    /\ call.result = "ResponseTooLarge"
    /\ Len(popstream.buffer.inner) = MAX_SIZE
    /\ popstream.buffer.cursor = MAX_SIZE


\* the last call read the server's `indicator` in answer to its own
\* `command`
Answered(command, indicator) ==
    \E i \in DOMAIN last.got :
        /\ last.got[i].cmd = command
        /\ last.got[i].own
        /\ last.got[i].status = indicator

\* the last call was an authentication attempt that the server refused
Refused ==
    /\ last.op \in AuthorizationOps
    /\ last.kind = "ServerError"
    /\ Aligned

\* the last call was an authentication attempt whose exchange the server
\* answered +OK: APOP, AUTH, or USER and PASS
Accepted ==
    /\ last.op \in AuthorizationOps
    /\ CASE last.op = "apop" -> Answered("Apop", "+OK")
         [] last.op = "auth" -> Answered("Auth", "+OK")
         [] OTHER -> \/ Answered("Auth", "+OK")
                     \/ Answered("User", "+OK") /\ Answered("Pass", "+OK")

\* C31: an authentication attempt (apop, auth, login) that the server
\* answered with -ERR leaves the session in Authorization, as it was, and
\* an attempt that the server answers +OK, whatever went before it and so
\* also after refused attempts, returns Ok and moves the state to
\* Transaction.
C31_RetryAfterErr ==
    /\ Refused => /\ state = "Authentication"
                  /\ SessionUnchanged
    /\ Accepted => /\ last.kind = "Ok"
                   /\ state = "Transaction"

\* an attempt that succeeded right after a refused one
C31_Witness ==
    /\ last.after_err
    /\ Accepted
    /\ last.kind = "Ok"
    /\ state = "Transaction"


\* C32: last_activity is the time of the most recent successful write: a
\* call leaves it at the instant of the last request line it wrote
\* successfully, and as it was when it wrote none; a failed write and a
\* read do not change it.
C32_LastActivity ==
    (/\ last.op \in SessionOps
     /\ last.op \in TransactionOps => last.pre.state = "Transaction"
     /\ last.op \in AuthorizationOps => last.pre.state = "Authentication")
        => last.last_activity = last.delivered


\* C33: once the transport has delivered all bytes of a well-formed
\* response to the outstanding command, read_response returns it: no call
\* waits for more bytes while the bytes before the cursor are a whole
\* response to the only command in the queue, whatever was read before.
C33_ParsedWhenDelivered ==
    (/\ call.result = "Pending"
     /\ popstream.queue = << call.command >>
     /\ popstream.buffer.cursor <= Len(popstream.buffer.inner))
        => Take(popstream.buffer.inner, popstream.buffer.cursor)
               \notin Replies(call.command)


\* C34: in every state of the stream the cursor is at most the length of
\* the buffer, after a decode that failed with InvalidResponse the bytes
\* before the cursor are still the bytes that were received and parsed, and
\* no decode has made an out-of-range access.
C34_CursorWithinBuffer ==
    /\ popstream.buffer.cursor <= Len(popstream.buffer.inner)
    /\ call.result = "InvalidResponse"
           => Take(popstream.buffer.inner, popstream.buffer.cursor)
                  = call.parsed
    /\ call.result # "Panic"

\* the bytes a successful decode removed from the buffer
Consumed == Take(call.parsed, Len(call.parsed) - Len(call.remaining))

\* the number of line feeds in the bytes s
RECURSIVE LineFeeds(_)
LineFeeds(s) ==
    IF s = << >> THEN 0
    ELSE (IF Head(s) = "\n" THEN 1 ELSE 0) + LineFeeds(Tail(s))

\* s ends with the bytes t
EndsWith(s, t) ==
    /\ Len(s) >= Len(t)
    /\ Drop(s, Len(s) - Len(t)) = t

\* the bytes s are one line and its CRLF
OneLine(s) ==
    /\ EndsWith(s, END_OF_LINE)
    /\ LineFeeds(s) = 1

\* the bytes s are a status line and lines up to the first line that is
\* the termination octet alone, that line included
ThroughTermination(s) ==
    LET end == END_OF_LINE \o << "." >> \o END_OF_LINE
    IN  /\ EndsWith(s, end)
        /\ \A n \in 0 .. Len(s) - 1 : ~EndsWith(Take(s, n), end)

\* C35: on every successful decode the bytes removed from the buffer are the
\* whole response to the head command: the status line through its CRLF for
\* a single-line response and for -ERR, and everything through the
\* terminating '.' CRLF line for a multi-line response
C35_WholeResponseConsumed ==
    call.result \in { "Ok", "ServerError" } =>
        /\ call.remaining = Drop(call.parsed, Len(Consumed))
        /\ IF call.result = "ServerError" \/ call.command \notin MultiLine
           THEN OneLine(Consumed)
           ELSE ThroughTermination(Consumed)

\* C39: a successful RETR or TOP response with an empty body and a
\* successful LIST, UIDL or CAPA response with zero entries, the +OK status
\* line directly followed by the '.' CRLF line, each decode to a complete
\* response with empty content once the terminator has arrived
C39_EmptyDecodes ==
    (/\ call.command \in MultiLine
     /\ call.parsed = MessageReply(<< >>))
        => /\ call.result = "Ok"
           /\ call.resp.data = << >>
           /\ call.remaining = << >>

\* the last call read a response for `command` whose status was `indicator`
ReadFor(command, indicator) ==
    \E i \in DOMAIN last.got :
        /\ last.got[i].cmd = command
        /\ last.got[i].status = indicator

\* the last call handed a line of `command` to the transport
Wrote(command) == \E i \in DOMAIN last.sent : last.sent[i][1] = command

\* the last call was a login in the AUTHORIZATION state with PLAIN
\* advertised, whose AUTH PLAIN was written and not answered +OK: the write
\* failed, the read failed, or the answer was -ERR or malformed
LoginAuthFailed ==
    /\ last.op = "login"
    /\ last.pre.state = "Authentication"
    /\ has_auth_mechanism([capabilities |-> last.pre.capabilities], PLAIN)
    /\ last.sent # << >>
    /\ last.sent[1][1] = "Auth"
    /\ ~ReadFor("Auth", "+OK")

\* C36: in login, when PLAIN is advertised but the AUTH PLAIN attempt
\* fails, login goes on with USER then PASS and its result is that of the
\* USER/PASS exchange; PASS is written only after USER was answered +OK,
\* and a USER answered -ERR ends login with ServerError, state
\* Authorization, and no PASS written
C36_LoginFallsBack ==
    LoginAuthFailed =>
        /\ Len(last.sent) >= 2
        /\ last.sent[2][1] = "User"
        /\ Wrote("Pass") => /\ last.sent[3][1] = "Pass"
                            /\ ReadFor("User", "+OK")
        /\ ReadFor("User", "-ERR") => /\ last.kind = "ServerError"
                                      /\ state = "Authentication"
                                      /\ ~Wrote("Pass")
        /\ ReadFor("Pass", "-ERR") => /\ last.kind = "ServerError"
                                      /\ state = "Authentication"
        /\ last.kind = "Ok" => /\ ReadFor("User", "+OK")
                               /\ ReadFor("Pass", "+OK")
                               /\ state = "Transaction"
        /\ (ReadFor("User", "+OK") /\ ReadFor("Pass", "+OK") /\ Aligned)
               => /\ last.kind = "Ok"
                  /\ state = "Transaction"

\* a login whose AUTH PLAIN was answered -ERR and whose USER and PASS were
\* answered +OK
C36_Witness ==
    /\ LoginAuthFailed
    /\ ReadFor("Auth", "-ERR")
    /\ last.sent[2][1] = "User"
    /\ last.sent[3][1] = "Pass"
    /\ ReadFor("User", "+OK")
    /\ ReadFor("Pass", "+OK")
    /\ last.kind = "Ok"
    /\ state = "Transaction"

\* the last call was an auth with a mechanism whose handler takes
\* challenges, made in the AUTHORIZATION state after the greeting
Handled ==
    /\ last.op = "auth"
    /\ Len(last.arg) = 2
    /\ last.pre.state = "Authentication"
    /\ last.pre.read_greeting

\* the reads of the last call that were made for `command`
ReadsFor(command) == { i \in DOMAIN last.got : last.got[i].cmd = command }

\* the handler of the last call returned Ok: every round read a challenge
\* and wrote its reply
HandlerDone ==
    /\ Cardinality(ReadsFor("Base64")) = last.arg[2]
    /\ \A i \in ReadsFor("Base64") : last.got[i].status = "+"
    /\ Len(last.sent) >= last.arg[2] + 1
    /\ \A i \in 2 .. last.arg[2] + 1 : last.sent[i][1] = "Base64"
    /\ last.delivered >= last.arg[2] + 1

\* a continuation line with the challenge `text`
Continuation(text) == << "+", " " >> \o text \o END_OF_LINE

\* the challenges a server sends
ChallengeTexts == { << >>, << "a" >>, << "b" >> }

\* of two continuation lines and a final status in the buffer, a decode for
\* a step of the exchange takes the first line and leaves the rest, the
\* next one takes the second, and the decode for AUTH the final status
OneLineEach ==
    \A a \in ChallengeTexts, b \in ChallengeTexts :
        LET final == OK \o END_OF_LINE
            first == from_bytes(Continuation(a) \o Continuation(b) \o final,
                                "Base64")
            second == from_bytes(Continuation(b) \o final, "Base64")
        IN  /\ first = Done(Continuation(b) \o final,
                            Response("Challenge", a))
            /\ second = Done(final, Response("Challenge", b))
            /\ from_bytes(final, "Auth") = Done(<< >>, Response("Message", << >>))

\* C37: during auth the AUTH request is written first; each next_challenge
\* of the handler consumes exactly one continuation line, in the order the
\* server sent them; the final +OK/-ERR status is read only after the
\* handler has returned; only a final +OK refreshes the capabilities and
\* sets the state to Transaction, and a handler error or a final -ERR
\* leaves the state Authorization
C37_AuthExchange ==
    /\ OneLineEach
    /\ Handled =>
        /\ last.sent # << >>
        /\ last.sent[1] = << "Auth", << last.arg[1] >> >>
        /\ \A i \in DOMAIN last.got : last.got[i].after >= 1
        /\ \A i \in ReadsFor("Base64") :
               /\ i <= last.arg[2]
               /\ last.got[i].after = i
               /\ \A j \in 1 .. i - 1 : /\ last.got[j].cmd = "Base64"
                                        /\ last.got[j].status = "+"
        /\ \A i \in ReadsFor("Auth") :
               /\ HandlerDone
               /\ i = last.arg[2] + 1
               /\ last.got[i].after = last.arg[2] + 1
        /\ (state = "Transaction" \/ Wrote("Capa")) =>
               \E i \in ReadsFor("Auth") : last.got[i].status = "+OK"
        /\ (ReadsFor("Auth") = { } \/ ReadFor("Auth", "-ERR")) =>
               /\ last.kind # "Ok"
               /\ state = "Authentication"
               /\ SessionUnchanged
        /\ (ReadFor("Auth", "+OK") /\ Aligned) =>
               /\ last.kind = "Ok"
               /\ state = "Transaction"
               /\ Wrote("Capa")

\* an auth of two rounds: the challenges were read and answered in turn,
\* the final status was +OK, and the state is Transaction
C37_Witness ==
    /\ Handled
    /\ last.arg[2] = 2
    /\ HandlerDone
    /\ ReadFor("Auth", "+OK")
    /\ Aligned
    /\ last.kind = "Ok"
    /\ state = "Transaction"

\* the number of times the bytes t occur in the bytes s
Occurrences(s, t) ==
    Cardinality({ i \in 1 .. Len(s) : StartsWith(Drop(s, i - 1), t) })

\* C38: every request operation writes exactly one CRLF-terminated line to
\* the transport, for every argument string the caller may pass (empty
\* strings and strings with spaces, CR or LF among them), so the server
\* receives one command line for each command queued, and no written line
\* has a space directly before its CRLF
C38_OneLinePerRequest ==
    call.result = "Written" =>
        /\ EndsWith(call.written, END_OF_LINE)
        /\ Occurrences(call.written, END_OF_LINE) = 1
        /\ Occurrences(call.written, << " " >> \o END_OF_LINE) = 0

====
